---- MODULE Spec2Model ----
(***************************************************************************)
(* Model of the Zotero local-library indexer (indexer.py) and of the       *)
(* citation retrieval engine (query.py).                                   *)
(*                                                                         *)
(* Spec     : the library on disk, the change-detection cache file, the    *)
(*            persisted vector store and runs of index_papers, stepped     *)
(*            candidate by candidate.                                      *)
(* SpecRAG  : ZoteroRAG.query / ZoteroRAG.retrieve_only over a loaded      *)
(*            index.                                                       *)
(*                                                                         *)
(* Text is a tuple of one-character strings wherever the code inspects     *)
(* characters (regular expressions, strip, endswith); values that are only *)
(* stored and compared are kept as strings.  The en dash and the em dash   *)
(* are written "~" and "=" (the module is ASCII).                          *)
(***************************************************************************)
EXTENDS Integers, Sequences, FiniteSets, TLC

VARIABLES
    fs,             \* the storage root: slot <<dir, file>> -> content | "absent"
    cache_file,     \* <cache_dir>/index_state.json
    vector_store,   \* the persisted vector store (documents of the last persist)
    pc,             \* position of the current index_papers call
    force,          \* index_papers: argument force
    papers,         \* index_papers: papers
    idx,            \* index_papers: position of the for loop in papers
    state,          \* index_papers: state
    all_documents,  \* index_papers: all_documents
    indexed_count,  \* index_papers: indexed_count
    result,         \* value returned by the last completed index_papers call
    run_no,         \* number of index_papers calls started (also the clock)
    fs_ops,         \* number of changes made to the library so far
    log,            \* history: outcome of every candidate visited in this run
    loaded,         \* history: the state as loaded at the start of this run
    cache_before,   \* history: cache_file when this run started
    store_before,   \* history: vector_store when this run started
    bulk_calls,     \* history: inputs of VectorStoreIndex.from_documents in this run
    unchanged_since,\* history: a force=false run completed and fs has not changed since
    after_clean,    \* history: unchanged_since, as it was when this run started
    failed_before,  \* history: slots whose extraction failed in the last completed run
    indexed_hash,   \* history: slot -> fingerprint it was last indexed with, or "none"
    rag,            \* SpecRAG: the ZoteroRAG object's configuration
    citations,      \* SpecRAG: citations returned by the last call
    last_call,      \* SpecRAG: the last call made on the engine
    source_nodes,   \* SpecRAG history: the nodes retrieval handed to the last call
    arg,            \* function specifications: the input of the call
    ret,            \* function specifications: the value it returned
    call,           \* function specifications: the function called, or "none"
    _index,         \* mcp_server: the global _index
    _config,        \* mcp_server: the global _config
    mcp_env,        \* mcp_server: what the server's environment is like
    mcp_reply,      \* mcp_server: the envelope returned by the last tool call
    mcp_call,       \* mcp_server history: the last tool call and what it retrieved
    zotero_sqlite,  \* zotero_meta: where the Zotero database is and how it opens
    metadata_cache, \* zotero_meta: <cache_dir>/zotero_metadata.json
    temp_copies,    \* zotero_meta: the temporary copies of the database that exist
    meta_call,      \* zotero_meta history: the last extract_and_cache_metadata call
    rag_config      \* config["rag"]: chunk_size and chunk_overlap

vars == <<fs, cache_file, vector_store, pc, force, papers, idx, state,
          all_documents, indexed_count, result, run_no, fs_ops, log, loaded,
          cache_before, store_before, bulk_calls, unchanged_since, after_clean,
          failed_before, indexed_hash, rag, citations, last_call,
          source_nodes, arg, ret, call, _index, _config, mcp_env, mcp_reply,
          mcp_call, zotero_sqlite, metadata_cache, temp_copies, meta_call,
          rag_config>>

indexVars == <<fs, cache_file, vector_store, pc, force, papers, idx, state,
               all_documents, indexed_count, result, run_no, fs_ops, log, loaded,
               cache_before, store_before, bulk_calls, unchanged_since,
               after_clean, failed_before, indexed_hash>>

ragVars == <<rag, citations, last_call, source_nodes>>

fnVars == <<arg, ret, call>>

\* what a run of index_papers, resp. a call on the engine, leaves alone
mcpVars == <<_index, _config, mcp_env, mcp_reply, mcp_call>>

metaVars == <<zotero_sqlite, metadata_cache, temp_copies, meta_call>>

outsideIndex == <<ragVars, fnVars, mcpVars, metaVars, rag_config>>
outsideRag == <<indexVars, fnVars, mcpVars, metaVars, rag_config>>
outsideFn == <<indexVars, ragVars, mcpVars, metaVars, rag_config>>
outsideMcp == <<indexVars, ragVars, fnVars, metaVars, rag_config>>
outsideMeta == <<indexVars, ragVars, fnVars, mcpVars, rag_config>>

(***************************************************************************)
(* Bounds of the model                                                     *)
(***************************************************************************)
MaxFsOps == 3
MaxRuns == 2

(***************************************************************************)
(* Characters and text helpers (Python str methods)                        *)
(***************************************************************************)
Digits == {"0", "1", "2", "3", "4", "5", "6", "7", "8", "9"}
Upper == {"A", "B", "C", "D", "E", "F", "G", "H", "I", "J", "K", "L", "M",
          "N", "O", "P", "Q", "R", "S", "T", "U", "V", "W", "X", "Y", "Z"}
Dashes == {"-", "~", "="}
Spaces == {" ", "\t", "\n"}

RECURSIVE Join(_)
Join(s) == IF s = <<>> THEN "" ELSE Head(s) \o Join(Tail(s))

RECURSIVE lstrip(_)
lstrip(s) == IF s # <<>> /\ Head(s) \in Spaces THEN lstrip(Tail(s)) ELSE s

RECURSIVE rstrip(_)
rstrip(s) ==
    IF s # <<>> /\ s[Len(s)] \in Spaces THEN rstrip(SubSeq(s, 1, Len(s) - 1)) ELSE s

strip(s) == rstrip(lstrip(s))

lower(c) ==
    CASE c = "P" -> "p" [] c = "D" -> "d" [] c = "F" -> "f" [] OTHER -> c

endswith_pdf(s) ==
    /\ Len(s) >= 4
    /\ SubSeq(s, Len(s) - 3, Len(s)) = <<".", "p", "d", "f">>

lower_endswith_pdf(s) ==
    /\ Len(s) >= 4
    /\ [k \in 1..4 |-> lower(s[Len(s) - 4 + k])] = <<".", "p", "d", "f">>

RECURSIVE SkipSpaces(_, _)
SkipSpaces(s, p) ==
    IF p <= Len(s) /\ s[p] \in Spaces THEN SkipSpaces(s, p + 1) ELSE p

(***************************************************************************)
(* The library on disk                                                     *)
(***************************************************************************)
\* Names of entries of the storage root.
DirName(d) ==
    CASE d = 1 -> <<"A", "A", "A", "A", "1", "1", "1", "1">>
      [] d = 2 -> <<"3", "G", "P", "Q", "D", "2", "K", "2">>
      [] d = 4 -> <<"A", "A", "A", "A", "1", "1", "1", "1", "\n">>
      [] d = 5 -> <<"A", "B", "C", "D", "1", "2", "3">>
      [] d = 6 -> <<"Z", "Z", "Z", "Z", "9", "9", "9", "9">>
      [] d = 7 -> <<"a", "b", "c", "d", "1", "2", "3", "4">>
      [] d = 8 -> <<"A", "B", "C", "D", "1", "2", "3", "4", "5">>
      [] OTHER -> <<"n", "o", "t", "e", "s">>

\* File names that occur inside those directories.
FileName(f) ==
    CASE f = 1 -> <<"A", " ", "-", " ", "2", "0", "2", "0", " ", "-", " ", "T",
                    ".", "p", "d", "f">>
      [] f = 2 -> <<"n", "o", "t", "e", "s", ".", "p", "d", "f">>
      [] f = 4 -> <<"s", "u", "b", "/", "x", ".", "p", "d", "f">>
      [] OTHER -> <<"r", "e", "a", "d", "m", "e", ".", "t", "x", "t">>

Slots == {<<1, 1>>, <<1, 2>>, <<2, 1>>, <<3, 2>>}

\* What a file can hold.  "c1" and "c2" are readable PDF files, "bad" is a file
\* PyMuPDF cannot open, "locked" is a file open() cannot read.
GoodContents == {"c1", "c2"}
Contents == GoodContents \cup {"bad", "locked"}

\* Page texts of a readable PDF, as page.get_text() returns them.
PageTexts(c) ==
    CASE c = "c1" -> << <<"y">>, <<" ", "\n">>, <<" ", "z">> >>
      [] OTHER    -> << <<" ">> >>

\* The order in which iterdir() and glob() yield the entries of a directory
\* is modelled as ascending.
RECURSIVE SetToSeq(_)
SetToSeq(S) ==
    IF S = {} THEN <<>>
    ELSE LET m == CHOOSE x \in S : \A y \in S : x <= y
         IN  <<m>> \o SetToSeq(S \ {m})

RECURSIVE Flatten(_)
Flatten(ss) == IF ss = <<>> THEN <<>> ELSE Head(ss) \o Flatten(Tail(ss))

(***************************************************************************)
(* parse_filename                                                          *)
(***************************************************************************)
NoNewline(s, a, b) == \A k \in a..b : s[k] # "\n"

\* `$` matches at the end and before a final newline; `.` matches no newline.
LineEnd(s) == IF s # <<>> /\ s[Len(s)] = "\n" THEN Len(s) - 1 ELSE Len(s)

\* Whether pattern ^(.+?)\s*[-~=]\s*(\d{4})\s*[-~=]\s*(.+)$ matches s with
\* group 1 = s[1..a]; the positions of the groups when it does.
MatchWithAuthors(s, a) ==
    LET n  == Len(s)
        p1 == SkipSpaces(s, a + 1)
        p2 == SkipSpaces(s, p1 + 1)
        p3 == SkipSpaces(s, p2 + 4)
        p4 == SkipSpaces(s, p3 + 1)
        e  == LineEnd(s)
        starts == {g \in (p3 + 1)..p4 : g <= e /\ NoNewline(s, g, e)}
        ok == /\ a >= 1 /\ a <= n /\ NoNewline(s, 1, a)
              /\ p1 <= n /\ s[p1] \in Dashes
              /\ p2 + 3 <= n /\ \A k \in 0..3 : s[p2 + k] \in Digits
              /\ p3 <= n /\ s[p3] \in Dashes
              /\ starts # {}
    IN  IF ok
        THEN [matched |-> TRUE, a |-> a, y |-> p2,
              t |-> CHOOSE g \in starts : \A h \in starts : h <= g, e |-> e]
        ELSE [matched |-> FALSE, a |-> 0, y |-> 0, t |-> 0, e |-> 0]

\* A match that takes the longest group 1.
re_match_greedy(s) ==
    LET As == {a \in 1..Len(s) : MatchWithAuthors(s, a).matched}
    IN  IF As = {} THEN MatchWithAuthors(s, 0)
        ELSE MatchWithAuthors(s, CHOOSE a \in As : \A b \in As : b <= a)

\* re.match: the shortest group 1 for which the rest of the pattern matches.
re_match(s) ==
    LET As == {a \in 1..Len(s) : MatchWithAuthors(s, a).matched}
    IN  IF As = {} THEN MatchWithAuthors(s, 0)
        ELSE MatchWithAuthors(s, CHOOSE a \in As : \A b \in As : a <= b)

\* A parser whose fallback title is the file name as given.
parse_filename_keeping_extension(filename, zotero_key, file_path) ==
    LET name == IF lower_endswith_pdf(filename)
                THEN SubSeq(filename, 1, Len(filename) - 4) ELSE filename
        m == re_match(name)
    IN  IF m.matched
        THEN [authors |-> Join(strip(SubSeq(name, 1, m.a))),
              year |-> Join(SubSeq(name, m.y, m.y + 3)),
              title |-> Join(strip(SubSeq(name, m.t, m.e))),
              zotero_key |-> zotero_key, file_path |-> file_path]
        ELSE [authors |-> "Unknown", year |-> "", title |-> Join(filename),
              zotero_key |-> zotero_key, file_path |-> file_path]

\* lines 63-82
parse_filename(filename, zotero_key, file_path) ==
    LET name == IF lower_endswith_pdf(filename)
                THEN SubSeq(filename, 1, Len(filename) - 4) ELSE filename
        m == re_match(name)
    IN  IF m.matched
        THEN [authors |-> Join(strip(SubSeq(name, 1, m.a))),
              year |-> Join(SubSeq(name, m.y, m.y + 3)),
              title |-> Join(strip(SubSeq(name, m.t, m.e))),
              zotero_key |-> zotero_key, file_path |-> file_path]
        ELSE [authors |-> "Unknown", year |-> "", title |-> Join(name),
              zotero_key |-> zotero_key, file_path |-> file_path]

(***************************************************************************)
(* find_all_pdfs                                                           *)
(***************************************************************************)
\* re.match(r'^[A-Z0-9]{8}$', zotero_key)
IsZoteroKey(k) ==
    /\ LineEnd(k) = 8
    /\ \A j \in 1..8 : k[j] \in Upper \cup Digits

\* A library f maps slot <<d, n>> to what file n of root entry d holds; the
\* slot <<d, 0>> stands for a root entry d that is a plain file, and the
\* library whose only slot is <<0, 0>> for a storage root that does not
\* exist.  A file name with a "/" is the path of a file in a sub-directory.
NoRoot == [sl \in {<<0, 0>>} |-> "absent"]

\* line 89: storage_path.exists()
storage_exists(f) == <<0, 0>> \notin DOMAIN f

\* line 93: storage_path.iterdir()
iterdir(f) ==
    SetToSeq({sl[1] : sl \in {s \in DOMAIN f : s[2] = 0 => f[s] # "absent"}})

\* line 94: item_dir.is_dir()
is_dir(f, d) == <<d, 0>> \notin DOMAIN f

\* item_dir.glob("*.pdf") in directory d of library f
glob_pdf(f, d) ==
    SetToSeq({n \in {sl[2] : sl \in {s \in DOMAIN f : s[1] = d}} :
                 /\ f[<<d, n>>] # "absent"
                 /\ \A j \in 1..Len(FileName(n)) : FileName(n)[j] # "/"
                 /\ endswith_pdf(FileName(n))})

\* lines 94-105: the candidates of one entry of the root
PapersOfDir(f, d) ==
    IF is_dir(f, d) /\ IsZoteroKey(DirName(d))
    THEN [k \in 1..Len(glob_pdf(f, d)) |->
            parse_filename(FileName(glob_pdf(f, d)[k]), Join(DirName(d)),
                           <<d, glob_pdf(f, d)[k]>>)]
    ELSE <<>>

find_all_pdfs(f) ==
    IF ~storage_exists(f) THEN <<>>
    ELSE Flatten([k \in 1..Len(iterdir(f)) |-> PapersOfDir(f, iterdir(f)[k])])

(***************************************************************************)
(* extract_pdf_by_pages, get_file_hash                                     *)
(***************************************************************************)
\* fitz.open(paper.file_path) raises on a file that is no readable PDF.
extract_raises(content) == content \notin GoodContents

\* open(filepath, "rb") raises on a file that cannot be read.
hash_raises(content) == content = "locked"

\* MD5 of the file's bytes: different contents, different digests.
get_file_hash(content) == "md5-" \o content

\* An extraction that emits a pair for every page, blank or not.
PagesFromEveryPage(paper, texts, page_num) ==
    [k \in 1..(Len(texts) - page_num) |->
        [text |-> Join(texts[page_num + k]),
         metadata |-> [title |-> paper.title, authors |-> paper.authors,
                       year |-> paper.year, zotero_key |-> paper.zotero_key,
                       source |-> Join(FileName(paper.file_path[2])),
                       file_path |-> paper.file_path,
                       page |-> page_num + k, total_pages |-> Len(texts)]]]

\* lines 112-126: the loop over the pages of the document, from page_num on
RECURSIVE PagesFrom(_, _, _)
PagesFrom(paper, texts, page_num) ==
    IF page_num >= Len(texts) THEN <<>>
    ELSE LET text == texts[page_num + 1]
             meta == [title |-> paper.title, authors |-> paper.authors,
                      year |-> paper.year, zotero_key |-> paper.zotero_key,
                      source |-> Join(FileName(paper.file_path[2])),
                      file_path |-> paper.file_path,
                      page |-> page_num + 1, total_pages |-> Len(texts)]
         IN  (IF strip(text) # <<>>
              THEN << [text |-> Join(text), metadata |-> meta] >> ELSE <<>>)
             \o PagesFrom(paper, texts, page_num + 1)

extract_pdf_by_pages(paper, content) == PagesFrom(paper, PageTexts(content), 0)

(***************************************************************************)
(* load_index_state, save_index_state                                      *)
(***************************************************************************)
EmptyDict == [k \in {} |-> 0]

DictSet(d, k, v) == [x \in DOMAIN d \cup {k} |-> IF x = k THEN v ELSE d[x]]

\* last_indexed = 0 stands for a state without the "last_indexed" key.
NoState == [indexed_files |-> EmptyDict, last_indexed |-> 0]

NoFile == [exists |-> FALSE, indexed_files |-> EmptyDict, last_indexed |-> 0]

\* The state file ignored.
load_index_state_ignoring(file) == NoState

load_index_state(file) ==
    IF file.exists
    THEN [indexed_files |-> file.indexed_files, last_indexed |-> file.last_indexed]
    ELSE NoState

save_index_state(st, now) ==
    [exists |-> TRUE, indexed_files |-> st.indexed_files, last_indexed |-> now]

(***************************************************************************)
(* index_papers: the body of the loop over papers                          *)
(***************************************************************************)
\* lines 218-219: the candidate is skipped
is_unchanged(st, frc, paper, file_hash) ==
    /\ ~frc
    /\ paper.zotero_key \in DOMAIN st.indexed_files
    /\ st.indexed_files[paper.zotero_key].hash = file_hash

\* lines 237-244: the record of a document that was extracted
record_indexed(st, paper, file_hash, pages, now) ==
    [st EXCEPT !.indexed_files =
        DictSet(@, paper.zotero_key,
                [hash |-> file_hash, indexed_at |-> now, title |-> paper.title,
                 authors |-> paper.authors, year |-> paper.year,
                 pages |-> Len(pages)])]

\* A record written although extraction raised.
state_after_error_recording(st, paper, file_hash, now) ==
    record_indexed(st, paper, file_hash, <<>>, now)

\* lines 249-250: extraction raised inside the try block, nothing is recorded
state_after_error(st, paper, file_hash, now) == st

\* The batch restarted at every document instead of extended.
append_documents_restarting(docs, pages) == pages

\* lines 228-235: the documents of the pages join the batch
append_documents(docs, pages) == docs \o pages

\* line 200
initial_state(frc, file) == IF frc THEN NoState ELSE load_index_state(file)

(***************************************************************************)
(* Initial state: an empty library, no cache file, no vector store         *)
(***************************************************************************)
\* no run of index_papers has started
RunIdle ==
    /\ pc = "idle"
    /\ force = FALSE
    /\ papers = <<>>
    /\ idx = 1
    /\ state = NoState
    /\ all_documents = <<>>
    /\ indexed_count = 0
    /\ result = 0
    /\ run_no = 0
    /\ fs_ops = 0
    /\ log = <<>>
    /\ loaded = NoState
    /\ cache_before = NoFile
    /\ store_before = <<>>
    /\ bulk_calls = <<>>
    /\ unchanged_since = FALSE
    /\ after_clean = FALSE
    /\ failed_before = {}
    /\ indexed_hash = [sl \in Slots |-> "none"]

\* a configuration whose overlap is smaller than its chunk size
ValidRagConfig == [chunk_size |-> 2, chunk_overlap |-> 1]

IndexInit ==
    /\ fs = [sl \in Slots |-> "absent"]
    /\ cache_file = NoFile
    /\ vector_store = <<>>
    /\ rag_config = ValidRagConfig
    /\ RunIdle

RagIdle ==
    /\ rag = [top_k |-> 0, similarity_threshold |-> 0, index |-> 0]
    /\ citations = <<>>
    /\ last_call = [op |-> "none", question |-> 0, top_k |-> 0]
    /\ source_nodes = <<>>

\* no function of the function specifications has been called
FnIdle ==
    /\ arg = <<>>
    /\ ret = <<>>
    /\ call = "none"

\* the MCP server is not running
NoCall == [tool |-> "none", retrieved |-> FALSE, nodes |-> <<>>]

McpIdle ==
    /\ _index = [loaded |-> FALSE, nodes |-> {}]
    /\ _config = "None"
    /\ mcp_env = [config |-> "ok", vector_db |-> "ok", backend |-> "up",
                  state_json |-> "ok", nodes |-> {}]
    /\ mcp_reply = [status |-> "none", escaped |-> "none"]
    /\ mcp_call = NoCall

\* no zotero_metadata.json
NoMetadataCache == [exists |-> FALSE, data |-> <<>>]

\* extract_and_cache_metadata has not been called
NoMetaCall ==
    [n |-> 0, force |-> FALSE, outcome |-> "none", value |-> <<>>,
     conn |-> "none", wrote |-> FALSE, created |-> {},
     cache_before |-> NoMetadataCache,
     db_before |-> [where |-> "nowhere", version |-> 1, direct |-> "ok"]]

MetaIdle ==
    /\ zotero_sqlite = [where |-> "nowhere", version |-> 1, direct |-> "ok"]
    /\ metadata_cache = NoMetadataCache
    /\ temp_copies = {}
    /\ meta_call = NoMetaCall

NotRunning == pc \in {"idle", "done", "aborted"}

(***************************************************************************)
(* The user (or Zotero) changes the library between runs                   *)
(***************************************************************************)
WriteFile(sl, c) ==
    /\ NotRunning
    /\ fs_ops < MaxFsOps
    /\ storage_exists(fs)
    /\ fs[sl] # c
    /\ fs' = [fs EXCEPT ![sl] = c]
    /\ fs_ops' = fs_ops + 1
    /\ unchanged_since' = FALSE
    /\ failed_before' = failed_before \ {sl}
    /\ UNCHANGED <<cache_file, vector_store, pc, force, papers, idx, state,
                   all_documents, indexed_count, result, run_no, log, loaded,
                   cache_before, store_before, bulk_calls, after_clean>>
    /\ UNCHANGED <<indexed_hash, outsideIndex>>

DeleteFile(sl) ==
    /\ NotRunning
    /\ fs_ops < MaxFsOps
    /\ storage_exists(fs)
    /\ fs[sl] # "absent"
    /\ fs' = [fs EXCEPT ![sl] = "absent"]
    /\ fs_ops' = fs_ops + 1
    /\ unchanged_since' = FALSE
    /\ failed_before' = failed_before \ {sl}
    /\ UNCHANGED <<cache_file, vector_store, pc, force, papers, idx, state,
                   all_documents, indexed_count, result, run_no, log, loaded,
                   cache_before, store_before, bulk_calls, after_clean>>
    /\ UNCHANGED <<indexed_hash, outsideIndex>>

(***************************************************************************)
(* index_papers(config, force)                                             *)
(***************************************************************************)
FailedSlots(lg) ==
    {lg[k].path : k \in {j \in 1..Len(lg) : lg[j].outcome = "extract_error"}}

\* an index_papers that goes on with an empty candidate list
nothing_to_index_ignored(found) == FALSE

\* lines 190-192: if not papers: return 0
nothing_to_index(found) == found = <<>>

\* setup_llama_index, lines 155-174: the code hands chunk_size and
\* chunk_overlap to SentenceSplitter unchecked; the library raises ValueError
\* when the overlap is larger than the chunk size and accepts an equal one.
setup_llama_index_raises(rag_cfg) == rag_cfg.chunk_overlap > rag_cfg.chunk_size

\* lines 179-204: scan the library; return 0 when it holds no PDF, else
\* configure LlamaIndex, load the state and enter the loop
StartRun(frc) ==
    /\ NotRunning
    /\ run_no < MaxRuns
    /\ run_no' = run_no + 1
    /\ force' = frc
    /\ papers' = find_all_pdfs(fs)
    /\ idx' = 1
    /\ log' = <<>>
    /\ bulk_calls' = <<>>
    /\ cache_before' = cache_file
    /\ store_before' = vector_store
    /\ after_clean' = unchanged_since
    /\ all_documents' = <<>>
    /\ indexed_count' = 0
    /\ IF nothing_to_index(papers')
       THEN /\ pc' = "done"
            /\ result' = 0
            /\ unchanged_since' = ~frc
            /\ failed_before' = {}
            /\ UNCHANGED <<state, loaded>>
       ELSE IF setup_llama_index_raises(rag_config)
       THEN /\ pc' = "aborted"
            /\ unchanged_since' = FALSE
            /\ failed_before' = {}
            /\ UNCHANGED <<state, loaded, result>>
       ELSE /\ pc' = "loop"
            /\ state' = initial_state(frc, cache_file)
            /\ loaded' = state'
            /\ unchanged_since' = FALSE
            /\ UNCHANGED <<result, failed_before>>
    /\ UNCHANGED <<fs, cache_file, vector_store, fs_ops>>
    /\ UNCHANGED <<indexed_hash, outsideIndex>>

LogEntry(paper, file_hash, outcome) ==
    [path |-> paper.file_path, key |-> paper.zotero_key, hash |-> file_hash,
     content |-> fs[paper.file_path], outcome |-> outcome]

\* line 216: get_file_hash raises outside the try block; the exception leaves
\* index_papers
VisitHashError ==
    /\ pc = "loop" /\ idx <= Len(papers)
    /\ hash_raises(fs[papers[idx].file_path])
    /\ pc' = "aborted"
    /\ log' = Append(log, LogEntry(papers[idx], "none", "hash_error"))
    /\ failed_before' = {}
    /\ UNCHANGED <<fs, cache_file, vector_store, force, papers, idx, state,
                   all_documents, indexed_count, result, run_no, fs_ops, loaded,
                   cache_before, store_before, bulk_calls, unchanged_since,
                   after_clean>>
    /\ UNCHANGED <<indexed_hash, outsideIndex>>

\* lines 216-221: the candidate is skipped
VisitSkip ==
    /\ pc = "loop" /\ idx <= Len(papers)
    /\ ~hash_raises(fs[papers[idx].file_path])
    /\ LET paper == papers[idx]
           file_hash == get_file_hash(fs[paper.file_path])
       IN  /\ is_unchanged(state, force, paper, file_hash)
           /\ log' = Append(log, LogEntry(paper, file_hash, "skipped"))
    /\ idx' = idx + 1
    /\ UNCHANGED <<fs, cache_file, vector_store, pc, force, papers, state,
                   all_documents, indexed_count, result, run_no, fs_ops, loaded,
                   cache_before, store_before, bulk_calls, unchanged_since,
                   after_clean, failed_before>>
    /\ UNCHANGED <<indexed_hash, outsideIndex>>

\* lines 225-245, 252: the candidate is extracted and recorded
VisitIndex ==
    /\ pc = "loop" /\ idx <= Len(papers)
    /\ ~hash_raises(fs[papers[idx].file_path])
    /\ LET paper == papers[idx]
           content == fs[paper.file_path]
           file_hash == get_file_hash(content)
           pages == extract_pdf_by_pages(paper, content)
       IN  /\ ~is_unchanged(state, force, paper, file_hash)
           /\ ~extract_raises(content)
           /\ all_documents' = append_documents(all_documents, pages)
           /\ state' = record_indexed(state, paper, file_hash, pages, run_no)
           /\ indexed_count' = indexed_count + 1
           /\ log' = Append(log, LogEntry(paper, file_hash, "indexed"))
    /\ idx' = idx + 1
    /\ UNCHANGED <<fs, cache_file, vector_store, pc, force, papers, result,
                   run_no, fs_ops, loaded, cache_before, store_before,
                   bulk_calls, unchanged_since, after_clean, failed_before>>
    /\ UNCHANGED <<indexed_hash, outsideIndex>>

\* lines 225-226, 249-252: extraction raises, the exception is caught
VisitExtractError ==
    /\ pc = "loop" /\ idx <= Len(papers)
    /\ ~hash_raises(fs[papers[idx].file_path])
    /\ LET paper == papers[idx]
           content == fs[paper.file_path]
           file_hash == get_file_hash(content)
       IN  /\ ~is_unchanged(state, force, paper, file_hash)
           /\ extract_raises(content)
           /\ state' = state_after_error(state, paper, file_hash, run_no)
           /\ log' = Append(log, LogEntry(paper, file_hash, "extract_error"))
    /\ idx' = idx + 1
    /\ UNCHANGED <<fs, cache_file, vector_store, pc, force, papers,
                   all_documents, indexed_count, result, run_no, fs_ops, loaded,
                   cache_before, store_before, bulk_calls, unchanged_since,
                   after_clean, failed_before>>
    /\ UNCHANGED <<indexed_hash, outsideIndex>>

\* the bulk call left out
needs_bulk_never(docs) == FALSE

\* line 255: whether the bulk call is made for this batch
needs_bulk(docs) == docs # <<>>

\* lines 255-266: VectorStoreIndex.from_documents builds a new index from the
\* batch and persist writes it to the vector_db directory
BulkIndex ==
    /\ pc = "loop" /\ idx > Len(papers)
    /\ needs_bulk(all_documents)
    /\ bulk_calls' = Append(bulk_calls, [input |-> all_documents,
                                         visited |-> Len(log)])
    /\ vector_store' = all_documents
    /\ pc' = "save"
    /\ UNCHANGED <<fs, cache_file, force, papers, idx, state, all_documents,
                   indexed_count, result, run_no, fs_ops, log, loaded,
                   cache_before, store_before, unchanged_since, after_clean,
                   failed_before>>
    /\ UNCHANGED <<indexed_hash, outsideIndex>>

\* lines 258-261: the embedding backend fails, the exception leaves index_papers
BulkIndexError ==
    /\ pc = "loop" /\ idx > Len(papers)
    /\ needs_bulk(all_documents)
    /\ bulk_calls' = Append(bulk_calls, [input |-> all_documents,
                                         visited |-> Len(log)])
    /\ pc' = "aborted"
    /\ failed_before' = {}
    /\ UNCHANGED <<fs, cache_file, vector_store, force, papers, idx, state,
                   all_documents, indexed_count, result, run_no, fs_ops, log,
                   loaded, cache_before, store_before, unchanged_since,
                   after_clean>>
    /\ UNCHANGED <<indexed_hash, outsideIndex>>

\* line 255: an empty batch, no bulk call
NoBulkIndex ==
    /\ pc = "loop" /\ idx > Len(papers)
    /\ ~needs_bulk(all_documents)
    /\ pc' = "save"
    /\ UNCHANGED <<fs, cache_file, vector_store, force, papers, idx, state,
                   all_documents, indexed_count, result, run_no, fs_ops, log,
                   loaded, cache_before, store_before, bulk_calls,
                   unchanged_since, after_clean, failed_before>>
    /\ UNCHANGED <<indexed_hash, outsideIndex>>

\* lines 268-271: the state is saved and the count returned
SaveAndReturn ==
    /\ pc = "save"
    /\ cache_file' = save_index_state(state, run_no)
    /\ result' = indexed_count
    /\ pc' = "done"
    /\ unchanged_since' = ~force
    /\ failed_before' = FailedSlots(log)
    /\ indexed_hash' = [sl \in Slots |->
            IF \E k \in 1..Len(log) : log[k].path = sl /\ log[k].outcome = "indexed"
            THEN get_file_hash(fs[sl]) ELSE indexed_hash[sl]]
    /\ UNCHANGED <<fs, vector_store, force, papers, idx, state, all_documents,
                   indexed_count, run_no, fs_ops, log, loaded, cache_before,
                   store_before, bulk_calls, after_clean>>
    /\ UNCHANGED outsideIndex

\* The content of a file that find_all_pdfs never yields is never read: one
\* content stands for all.
ContentsFor(sl) ==
    IF IsZoteroKey(DirName(sl[1])) /\ endswith_pdf(FileName(sl[2]))
    THEN Contents ELSE {"c1"}

Init == IndexInit /\ RagIdle /\ FnIdle /\ McpIdle /\ MetaIdle

Next ==
    \/ \E sl \in Slots : \E c \in ContentsFor(sl) : WriteFile(sl, c)
    \/ \E sl \in Slots : DeleteFile(sl)
    \/ \E frc \in BOOLEAN : StartRun(frc)
    \/ VisitHashError
    \/ VisitSkip
    \/ VisitIndex
    \/ VisitExtractError
    \/ BulkIndex
    \/ BulkIndexError
    \/ NoBulkIndex
    \/ SaveAndReturn

Spec == Init /\ [][Next]_vars

(***************************************************************************)
(* index_papers over a library that stays as it is, for every chunking     *)
(* configuration                                                           *)
(***************************************************************************)
MaxChunk == 2

RagConfigs == [chunk_size : 1..MaxChunk, chunk_overlap : 0..MaxChunk]

\* Libraries with up to two PDF files in key directories, readable or not.
StartupLibraries ==
    {[sl \in Slots |-> IF sl = <<1, 1>> THEN a ELSE IF sl = <<2, 1>> THEN b
                       ELSE "absent"] :
        a \in Contents \cup {"absent"}, b \in Contents \cup {"absent"}}

InitStartup ==
    /\ fs \in StartupLibraries
    /\ cache_file = NoFile
    /\ vector_store = <<>>
    /\ rag_config \in RagConfigs
    /\ RunIdle
    /\ RagIdle
    /\ FnIdle
    /\ McpIdle
    /\ MetaIdle

NextStartup ==
    \/ \E frc \in BOOLEAN : StartRun(frc)
    \/ VisitHashError
    \/ VisitSkip
    \/ VisitIndex
    \/ VisitExtractError
    \/ BulkIndex
    \/ BulkIndexError
    \/ NoBulkIndex
    \/ SaveAndReturn

SpecStartup == InitStartup /\ [][NextStartup]_vars

(***************************************************************************)
(* The same, with a storage root that can disappear (the Zotero data       *)
(* directory is moved, or its drive is not mounted)                        *)
(***************************************************************************)
RemoveRoot ==
    /\ NotRunning
    /\ fs_ops < MaxFsOps
    /\ storage_exists(fs)
    /\ fs' = NoRoot
    /\ fs_ops' = fs_ops + 1
    /\ unchanged_since' = FALSE
    /\ failed_before' = {}
    /\ UNCHANGED <<cache_file, vector_store, pc, force, papers, idx, state,
                   all_documents, indexed_count, result, run_no, log, loaded,
                   cache_before, store_before, bulk_calls, after_clean>>
    /\ UNCHANGED <<indexed_hash, outsideIndex>>

NextLibrary == Next \/ RemoveRoot

SpecLibrary == Init /\ [][NextLibrary]_vars

(***************************************************************************)
(* query.py: ZoteroRAG over a loaded index                                 *)
(*                                                                         *)
(* The vector store is an external capability: a loaded index is a set of  *)
(* nodes (chunks), and the store gives every node a similarity to the      *)
(* question.  Scores are in thousandths (900 is 0.9).                      *)
(***************************************************************************)
MaxTopK == 3
MaxLimit == 2
MaxPages == 3

Nodes == {1, 2, 3}
Questions == {1, 2, 3}
Thresholds == {0, 500, 750}

\* Similarity of node n to question q, as the store computes it.
Similarity(q, n) ==
    CASE q = 1 -> (CASE n = 1 -> 900 [] n = 2 -> 750 [] n = 3 -> 400
                     [] OTHER -> 300)
      [] q = 2 -> (CASE n = 1 -> 400 [] n = 2 -> 500 [] n = 3 -> 499
                     [] OTHER -> 450)
      [] OTHER -> (CASE n = 1 -> 100 [] n = 2 -> 0 [] n = 3 -> 50 [] OTHER -> 75)

\* The metadata the indexer stored with the node; node 3 comes from a file
\* whose name gave no year and carries no "year" key, node 4 (which only the
\* MCP server's index holds) carries no "title" key either.
NodeMetadata(n) ==
    CASE n = 1 -> [k \in {"source", "page", "title", "authors", "year"} |->
                     CASE k = "source" -> "A - 2020 - T.pdf" [] k = "page" -> 1
                       [] k = "title" -> "T" [] k = "authors" -> "A"
                       [] OTHER -> "2020"]
      [] n = 2 -> [k \in {"source", "page", "title", "authors", "year"} |->
                     CASE k = "source" -> "A - 2020 - T.pdf" [] k = "page" -> 3
                       [] k = "title" -> "T" [] k = "authors" -> "A"
                       [] OTHER -> "2020"]
      [] n = 3 -> [k \in {"source", "page", "title"} |->
                     CASE k = "source" -> "notes.pdf" [] k = "page" -> 1
                       [] OTHER -> "notes"]
      [] OTHER -> [k \in {"source", "page"} |->
                     CASE k = "source" -> "notes.pdf" [] OTHER -> 2]

NodeText(n) == CASE n = 1 -> "y" [] n = 2 -> " z" [] n = 3 -> "n" [] OTHER -> "u"

\* VectorIndexRetriever(index, similarity_top_k).retrieve(question): the
\* similarity_top_k most similar nodes of the index, most similar first.
RECURSIVE retrieve(_, _, _)
retrieve(index, q, top_k) ==
    IF index = {} \/ top_k = 0 THEN <<>>
    ELSE LET best == CHOOSE n \in index :
                        \A m \in index :
                            \/ Similarity(q, n) > Similarity(q, m)
                            \/ Similarity(q, n) = Similarity(q, m) /\ n <= m
         IN  << [node |-> best, score |-> Similarity(q, best)] >>
             \o retrieve(index \ {best}, q, top_k - 1)

\* SimilarityPostprocessor(similarity_cutoff): nodes scoring below the cutoff
\* are dropped, the order of the others is kept.
RECURSIVE postprocess(_, _)
postprocess(nodes, similarity_cutoff) ==
    IF nodes = <<>> THEN <<>>
    ELSE (IF Head(nodes).score < similarity_cutoff THEN <<>> ELSE <<Head(nodes)>>)
         \o postprocess(Tail(nodes), similarity_cutoff)

\* dict.get(key, default)
Get(meta, key, default) == IF key \in DOMAIN meta THEN meta[key] ELSE default

\* lines 135-143 and 158-166
Citation(nws) ==
    LET meta == NodeMetadata(nws.node)
    IN  [source |-> Get(meta, "source", "Unknown"),
         page |-> Get(meta, "page", 0),
         title |-> Get(meta, "title", "Unknown"),
         authors |-> Get(meta, "authors", "Unknown"),
         year |-> Get(meta, "year", ""),
         text_snippet |-> NodeText(nws.node),
         score |-> IF nws.score # 0 THEN nws.score ELSE 0]

\* lines 109-127: the nodes the query engine hands to the synthesizer and
\* reports as source_nodes
engine_source_nodes(r, q) ==
    postprocess(retrieve(r.index, q, r.top_k), r.similarity_threshold)

\* lines 148-153: the nodes retrieve_only works on
retrieve_only_nodes(r, q, top_k) == retrieve(r.index, q, top_k)

\* ZoteroRAG(config): lines 89-95
RagInit ==
    /\ rag \in [top_k : 1..MaxTopK, similarity_threshold : Thresholds,
                index : SUBSET Nodes]
    /\ citations = <<>>
    /\ last_call = [op |-> "none", question |-> 0, top_k |-> 0]
    /\ source_nodes = <<>>

\* a loop that appends only for nodes carrying every metadata key
build_citations_skipping_defaults(nodes) ==
    [k \in 1..Len(SelectSeq(nodes, LAMBDA n : DOMAIN NodeMetadata(n.node)
                                              = DOMAIN NodeMetadata(1))) |->
        Citation(SelectSeq(nodes, LAMBDA n : DOMAIN NodeMetadata(n.node)
                                             = DOMAIN NodeMetadata(1))[k])]

\* the for loops of lines 132-143 and 155-166: one append per node, in order
build_citations(nodes) == [k \in 1..Len(nodes) |-> Citation(nodes[k])]

\* ZoteroRAG.query(question): lines 129-145
Query(q) ==
    /\ source_nodes' = engine_source_nodes(rag, q)
    /\ citations' = build_citations(engine_source_nodes(rag, q))
    /\ last_call' = [op |-> "query", question |-> q, top_k |-> rag.top_k]
    /\ UNCHANGED <<rag, outsideRag>>

\* ZoteroRAG.retrieve_only(question, top_k): lines 147-168
RetrieveOnly(q, top_k) ==
    /\ source_nodes' = retrieve_only_nodes(rag, q, top_k)
    /\ citations' = build_citations(retrieve_only_nodes(rag, q, top_k))
    /\ last_call' = [op |-> "retrieve_only", question |-> q, top_k |-> top_k]
    /\ UNCHANGED <<rag, outsideRag>>

NextRAG ==
    \/ \E q \in Questions : Query(q)
    \/ \E q \in Questions, top_k \in 1..MaxTopK : RetrieveOnly(q, top_k)

InitRAG == IndexInit /\ RagInit /\ FnIdle /\ McpIdle /\ MetaIdle

SpecRAG == InitRAG /\ [][NextRAG]_vars

(***************************************************************************)
(* mcp_server.py: the four tools of the MCP server                         *)
(*                                                                         *)
(* A tool's reply is the JSON object it serialises.  What can fail is the  *)
(* environment of the server: the configuration file, the vector store     *)
(* directory, the embedding backend and the state file's JSON.             *)
(***************************************************************************)
\* The characters of the model's texts, by increasing code point ("~" and "="
\* are the en dash and the em dash).
CodeOrder ==
    <<"\t", "\n", " ", "-", ".",
      "0", "1", "2", "3", "4", "5", "6", "7", "8", "9",
      "A", "B", "C", "D", "E", "F", "G", "H", "I", "J", "K", "L", "M",
      "N", "O", "P", "Q", "R", "S", "T", "U", "V", "W", "X", "Y", "Z",
      "a", "b", "c", "d", "e", "f", "g", "h", "i", "j", "k", "l", "m",
      "n", "o", "p", "q", "r", "s", "t", "u", "v", "w", "x", "y", "z",
      "~", "=">>

CodePoint(c) == CHOOSE i \in 1..Len(CodeOrder) : CodeOrder[i] = c

\* a lower() that changes nothing
str_lower_keeping_case(s) == s

\* str.lower()
str_lower(s) ==
    [k \in 1..Len(s) |->
        IF s[k] \in Upper THEN CodeOrder[CodePoint(s[k]) + Cardinality(Upper)]
        ELSE s[k]]

\* sub in s
Contains(s, sub) ==
    \E i \in 0..(Len(s) - Len(sub)) : SubSeq(s, i + 1, i + Len(sub)) = sub

\* a < b on str
StrLess(a, b) ==
    \E k \in 1..Len(b) :
        /\ Len(a) >= k - 1
        /\ SubSeq(a, 1, k - 1) = SubSeq(b, 1, k - 1)
        /\ (Len(a) = k - 1 \/ CodePoint(a[k]) < CodePoint(b[k]))

\* (a1, a2) < (b1, b2) on tuples of str
PairLess(a, b) == StrLess(a[1], b[1]) \/ (a[1] = b[1] /\ StrLess(a[2], b[2]))

\* The texts held as strings by node metadata and cache records, character
\* by character.
KnownTexts ==
    {<<>>, <<"T">>, <<"n", "o", "t", "e", "s">>, <<"A">>,
     <<"U", "n", "k", "n", "o", "w", "n">>, <<"2", "0", "2", "0">>,
     <<"0", "0", "0", "0">>, DirName(1), DirName(2)}

Chars(str) == CHOOSE t \in KnownTexts : Join(t) = str

\* sorted(items, key=..., reverse=True): descending by key, equal keys in
\* their original order
RECURSIVE sorted_reverse(_)
sorted_reverse(items) ==
    IF items = <<>> THEN <<>>
    ELSE LET rest == sorted_reverse(SubSeq(items, 1, Len(items) - 1))
             x == items[Len(items)]
             before == SelectSeq(rest, LAMBDA y : ~PairLess(y.key, x.key))
             after == SelectSeq(rest, LAMBDA y : PairLess(y.key, x.key))
         IN  before \o <<x>> \o after

\* The index on disk and the nodes of the MCP server's queries: node 4 was
\* stored without a "title" key.
McpNodes == Nodes \cup {4}
IndexContents == {{}, {3}, McpNodes}
KeywordTexts == {<<"t">>, <<"T">>, <<"N", "O", "T">>, <<"x">>,
                 <<"k", "n", "o", "w">>}

\* The configuration file (found or not), the vector store directory (a
\* store, absent, or not loadable), the embedding backend and the JSON of the
\* state file.
EnvValues ==
    [config |-> {"ok", "missing"}, vector_db |-> {"ok", "missing", "corrupt"},
     backend |-> {"up", "down"}, state_json |-> {"ok", "corrupt"}]

NoYear == "None"
YearParams == {NoYear, "", "2020"}

\* Exceptions that were raised and not handled, "none" when there is none.
ExceptionClasses ==
    {"FileNotFoundError", "ValueError", "ConnectionError", "JSONDecodeError"}

\* load_config(): lines 44-62
load_config_raises(env) ==
    IF env.config = "missing" THEN "FileNotFoundError" ELSE "none"

\* get_index() loading on every call
get_index_reloading(index, config, env) ==
    IF load_config_raises(env) # "none"
    THEN [raised |-> load_config_raises(env), index |-> index, config |-> config]
    ELSE IF env.vector_db = "missing"
    THEN [raised |-> "FileNotFoundError", index |-> index, config |-> "loaded"]
    ELSE IF env.vector_db = "corrupt"
    THEN [raised |-> "ValueError", index |-> index, config |-> "loaded"]
    ELSE [raised |-> "none", index |-> [loaded |-> TRUE, nodes |-> env.nodes],
          config |-> "loaded"]

\* get_index(): the globals after the call and the exception it raised
get_index(index, config, env) ==
    IF index.loaded
    THEN [raised |-> "none", index |-> index, config |-> config]
    ELSE IF load_config_raises(env) # "none"
    THEN [raised |-> load_config_raises(env), index |-> index, config |-> config]
    ELSE IF env.vector_db = "missing"
    THEN [raised |-> "FileNotFoundError", index |-> index, config |-> "loaded"]
    ELSE IF env.vector_db = "corrupt"
    THEN [raised |-> "ValueError", index |-> index, config |-> "loaded"]
    ELSE [raised |-> "none", index |-> [loaded |-> TRUE, nodes |-> env.nodes],
          config |-> "loaded"]

\* retriever.retrieve(query) embeds the query with the backend
mcp_retrieve(index, env, q, top_k) ==
    IF env.backend = "down"
    THEN [raised |-> "ConnectionError", nodes |-> <<>>]
    ELSE [raised |-> "none", nodes |-> retrieve(index.nodes, q, top_k)]

\* except only FileNotFoundError
error_envelope_for_missing_files(exc) ==
    IF exc = "FileNotFoundError"
    THEN [status |-> "error", message |-> exc, escaped |-> "none"]
    ELSE [status |-> "raised", message |-> exc, escaped |-> exc]

\* except Exception as e: return json.dumps({"status": "error", ...})
error_envelope(exc) ==
    IF exc \in ExceptionClasses
    THEN [status |-> "error", message |-> exc, escaped |-> "none"]
    ELSE [status |-> "raised", message |-> exc, escaped |-> exc]

SnippetLimit == 500

\* lines 230: the snippet of a search result
snippet(text) ==
    IF Len(text) > SnippetLimit
    THEN Join(SubSeq(Chars(text), 1, SnippetLimit)) \o "..."
    ELSE text

\* lines 222-231
search_result(nws) ==
    LET meta == NodeMetadata(nws.node)
    IN  [title |-> Get(meta, "title", "Unknown"),
         authors |-> Get(meta, "authors", "Unknown"),
         year |-> Get(meta, "year", ""),
         page |-> Get(meta, "page", 0),
         relevance_score |-> IF nws.score # 0 THEN nws.score ELSE 0,
         snippet |-> snippet(NodeText(nws.node))]

\* zotero_search: lines 203-243, given what get_index returned
zotero_search(got, env, q, top_k) ==
    IF got.raised # "none" THEN error_envelope(got.raised)
    ELSE LET r == mcp_retrieve(got.index, env, q, top_k)
         IN  IF r.raised # "none" THEN error_envelope(r.raised)
             ELSE IF r.nodes = <<>>
             THEN [status |-> "no_results", query |-> q, escaped |-> "none"]
             ELSE [status |-> "success", query |-> q,
                   total_results |-> Len(r.nodes),
                   results |-> [k \in 1..Len(r.nodes) |-> search_result(r.nodes[k])],
                   escaped |-> "none"]

PaperContentTopK == 10

\* lines 356-378: the loop over the retrieved nodes; papers is a dict, kept
\* here as the sequence of its values in insertion order
RECURSIVE group_by_title(_, _, _)
group_by_title(nodes, keyword, grouped) ==
    IF nodes = <<>> THEN grouped
    ELSE LET meta == NodeMetadata(Head(nodes).node)
             title == Get(meta, "title", "Unknown")
             excerpt == [page |-> Get(meta, "page", 0),
                         content |-> NodeText(Head(nodes).node)]
             known == {k \in 1..Len(grouped) : grouped[k].title = title}
         IN  IF ~Contains(str_lower(Chars(title)), str_lower(keyword))
             THEN group_by_title(Tail(nodes), keyword, grouped)
             ELSE IF known = {}
             THEN group_by_title(Tail(nodes), keyword,
                     Append(grouped,
                            [title |-> title,
                             authors |-> Get(meta, "authors", "Unknown"),
                             year |-> Get(meta, "year", ""),
                             total_pages |-> Get(meta, "total_pages", 0),
                             excerpts |-> <<excerpt>>]))
             ELSE group_by_title(Tail(nodes), keyword,
                     [grouped EXCEPT ![CHOOSE k \in known : TRUE].excerpts =
                         Append(@, excerpt)])

\* zotero_get_paper_content: lines 344-394, given what get_index returned
zotero_get_paper_content(got, env, q, keyword) ==
    IF got.raised # "none" THEN error_envelope(got.raised)
    ELSE LET r == mcp_retrieve(got.index, env, q, PaperContentTopK)
         IN  IF r.raised # "none" THEN error_envelope(r.raised)
             ELSE IF group_by_title(r.nodes, keyword, <<>>) = <<>>
             THEN [status |-> "not_found", escaped |-> "none"]
             ELSE [status |-> "success",
                   papers |-> group_by_title(r.nodes, keyword, <<>>),
                   escaped |-> "none"]

\* The keys of state["indexed_files"] in the order the file lists them, here
\* by increasing key.
RECURSIVE KeysInOrder(_)
KeysInOrder(keys) ==
    IF keys = {} THEN <<>>
    ELSE LET m == CHOOSE x \in keys :
                     \A y \in keys : x = y \/ StrLess(Chars(x), Chars(y))
         IN  <<m>> \o KeysInOrder(keys \ {m})

\* lines 292-306
year_histogram(files) ==
    LET years == {files[k].year : k \in DOMAIN files}
        items == [i \in 1..Len(KeysInOrder(years)) |->
                    LET y == KeysInOrder(years)[i]
                    IN  [key |-> <<Chars(y), <<>>>>, year |-> y,
                         count |-> Cardinality({k \in DOMAIN files :
                                                  files[k].year = y})]]
    IN  [i \in 1..Len(items) |->
            [year |-> sorted_reverse(items)[i].year,
             count |-> sorted_reverse(items)[i].count]]

\* lines 281-297
listed_papers(files, year, limit) ==
    LET keys == SelectSeq(KeysInOrder(DOMAIN files),
                          LAMBDA k : ~(year \notin {NoYear, ""}
                                       /\ files[k].year # year))
        items == [i \in 1..Len(keys) |->
                    [key |-> <<Chars(files[keys[i]].year),
                               Chars(files[keys[i]].title)>>,
                     paper |-> [title |-> files[keys[i]].title,
                                authors |-> files[keys[i]].authors,
                                year |-> files[keys[i]].year,
                                pages |-> files[keys[i]].pages,
                                zotero_key |-> keys[i]]]]
        ordered == sorted_reverse(items)
    IN  [i \in 1..(IF Len(ordered) < limit THEN Len(ordered) ELSE limit) |->
            ordered[i].paper]

\* what reading the state file raises
read_state_raises(env) ==
    IF env.state_json = "corrupt" THEN "JSONDecodeError" ELSE "none"

\* zotero_list_papers: lines 268-320
zotero_list_papers(file, env, year, limit) ==
    IF load_config_raises(env) # "none" THEN error_envelope(load_config_raises(env))
    ELSE IF ~file.exists
    THEN [status |-> "error", message |-> "no state file", escaped |-> "none"]
    ELSE IF read_state_raises(env) # "none"
    THEN error_envelope(read_state_raises(env))
    ELSE [status |-> "success",
          total_in_library |-> Cardinality(DOMAIN file.indexed_files),
          returned |-> Len(listed_papers(file.indexed_files, year, limit)),
          year_filter |-> year,
          papers_by_year |-> year_histogram(file.indexed_files),
          papers |-> listed_papers(file.indexed_files, year, limit),
          escaped |-> "none"]

RECURSIVE sum_pages(_, _)
sum_pages(files, keys) ==
    IF keys = {} THEN 0
    ELSE LET k == CHOOSE x \in keys : TRUE
         IN  files[k].pages + sum_pages(files, keys \ {k})

\* zotero_stats: lines 417-449
zotero_stats(file, env) ==
    IF load_config_raises(env) # "none" THEN error_envelope(load_config_raises(env))
    ELSE IF ~file.exists
    THEN [status |-> "error", message |-> "no index", escaped |-> "none"]
    ELSE IF read_state_raises(env) # "none"
    THEN error_envelope(read_state_raises(env))
    ELSE [status |-> "success",
          total_papers |-> Cardinality(DOMAIN file.indexed_files),
          total_pages |-> sum_pages(file.indexed_files, DOMAIN file.indexed_files),
          last_indexed |-> file.last_indexed,
          papers_by_year |-> year_histogram(file.indexed_files),
          escaped |-> "none"]

\* State files index_papers can have left behind.
StateFiles ==
    LET p1 == parse_filename(FileName(1), Join(DirName(2)), <<2, 1>>)
        p2 == parse_filename(FileName(2), Join(DirName(1)), <<1, 2>>)
        one == record_indexed(NoState, p1, get_file_hash("c1"),
                              extract_pdf_by_pages(p1, "c1"), 1)
        two == record_indexed(one, p2, get_file_hash("c2"),
                              extract_pdf_by_pages(p2, "c2"), 1)
    IN  {NoFile, save_index_state(NoState, 1), save_index_state(two, 1)}

\* the server process starts: lines 103-104
McpInit ==
    /\ _index = [loaded |-> FALSE, nodes |-> {}]
    /\ _config = "None"
    /\ mcp_env \in [config : EnvValues.config, vector_db : EnvValues.vector_db,
                    backend : EnvValues.backend,
                    state_json : EnvValues.state_json, nodes : IndexContents]
    /\ mcp_reply = [status |-> "none", escaped |-> "none"]
    /\ mcp_call = NoCall

\* what retrieval handed to the tool, for the record of the call
Retrieved(got, env, q, top_k) ==
    IF got.raised # "none" \/ mcp_retrieve(got.index, env, q, top_k).raised # "none"
    THEN [retrieved |-> FALSE, nodes |-> <<>>]
    ELSE [retrieved |-> TRUE, nodes |-> mcp_retrieve(got.index, env, q, top_k).nodes]

ZoteroSearch(q, top_k) ==
    LET got == get_index(_index, _config, mcp_env)
    IN  /\ _index' = got.index
        /\ _config' = got.config
        /\ mcp_reply' = zotero_search(got, mcp_env, q, top_k)
        /\ mcp_call' = [tool |-> "zotero_search",
                        retrieved |-> Retrieved(got, mcp_env, q, top_k).retrieved,
                        nodes |-> Retrieved(got, mcp_env, q, top_k).nodes]
        /\ UNCHANGED <<mcp_env, outsideMcp>>

ZoteroGetPaperContent(q, keyword) ==
    LET got == get_index(_index, _config, mcp_env)
    IN  /\ _index' = got.index
        /\ _config' = got.config
        /\ mcp_reply' = zotero_get_paper_content(got, mcp_env, q, keyword)
        /\ mcp_call' = [tool |-> "zotero_get_paper_content", keyword |-> keyword,
                        retrieved |-> Retrieved(got, mcp_env, q, PaperContentTopK).retrieved,
                        nodes |-> Retrieved(got, mcp_env, q, PaperContentTopK).nodes]
        /\ UNCHANGED <<mcp_env, outsideMcp>>

ZoteroListPapers(year, limit) ==
    /\ mcp_reply' = zotero_list_papers(cache_file, mcp_env, year, limit)
    /\ mcp_call' = [tool |-> "zotero_list_papers", retrieved |-> FALSE,
                    nodes |-> <<>>, year |-> year, limit |-> limit]
    /\ UNCHANGED <<_index, _config, mcp_env, outsideMcp>>

ZoteroStats ==
    /\ mcp_reply' = zotero_stats(cache_file, mcp_env)
    /\ mcp_call' = [tool |-> "zotero_stats", retrieved |-> FALSE, nodes |-> <<>>]
    /\ UNCHANGED <<_index, _config, mcp_env, outsideMcp>>

\* one part of the server's environment breaks or is repaired
EnvChange(part, value) ==
    /\ mcp_env[part] # value
    /\ mcp_env' = [mcp_env EXCEPT ![part] = value]
    /\ UNCHANGED <<_index, _config, mcp_reply, mcp_call, outsideMcp>>

NextMCP ==
    \/ \E q \in Questions, top_k \in 1..MaxTopK : ZoteroSearch(q, top_k)
    \/ \E q \in Questions, keyword \in KeywordTexts : ZoteroGetPaperContent(q, keyword)
    \/ \E year \in YearParams, limit \in 1..MaxLimit : ZoteroListPapers(year, limit)
    \/ ZoteroStats
    \/ \E part \in DOMAIN EnvValues :
          \E value \in EnvValues[part] : EnvChange(part, value)

InitMCP ==
    /\ fs = [sl \in Slots |-> "absent"]
    /\ cache_file \in StateFiles
    /\ vector_store = <<>>
    /\ rag_config = ValidRagConfig
    /\ RunIdle
    /\ RagIdle
    /\ FnIdle
    /\ MetaIdle
    /\ McpInit

SpecMCP == InitMCP /\ [][NextMCP]_vars

(***************************************************************************)
(* find_all_pdfs on its own, over libraries of every shape                 *)
(***************************************************************************)
\* Slots of the libraries find_all_pdfs is applied to: an identity-key
\* directory with a PDF, a text file and a PDF in a sub-directory; a
\* directory "notes"; directories named by 8 key characters and a line break,
\* by 7 key characters, by lower-case letters and by 9 key characters; and a
\* plain file with the name of a key.
LocatorSlots ==
    {<<1, 1>>, <<1, 3>>, <<1, 4>>, <<3, 2>>, <<4, 2>>, <<5, 2>>, <<6, 0>>,
     <<7, 2>>, <<8, 2>>}

InitLocator ==
    /\ IndexInit
    /\ RagIdle
    /\ McpIdle
    /\ MetaIdle
    /\ arg \in [LocatorSlots -> {"absent", "c1"}] \cup {NoRoot}
    /\ ret = <<>>
    /\ call = "none"

FindAllPdfs ==
    /\ call = "none"
    /\ call' = "find_all_pdfs"
    /\ ret' = find_all_pdfs(arg)
    /\ UNCHANGED <<arg, outsideFn>>

SpecLocator == InitLocator /\ [][FindAllPdfs]_vars

(***************************************************************************)
(* extract_pdf_by_pages on its own, over documents of every shape          *)
(***************************************************************************)
\* What page.get_text() can return for a page.
PageSamples == {<<>>, <<" ">>, <<"\n", "\t">>, <<"y">>, <<" ", "z">>}

RECURSIVE SeqsUpTo(_, _)
SeqsUpTo(S, n) ==
    IF n = 0 THEN {<<>>}
    ELSE SeqsUpTo(S, n - 1)
         \cup {Append(s, x) : s \in {t \in SeqsUpTo(S, n - 1) : Len(t) = n - 1},
                              x \in S}

\* Two candidates as find_all_pdfs builds them.
ExtractPapers ==
    {parse_filename(FileName(1), Join(DirName(1)), <<1, 1>>),
     parse_filename(FileName(2), Join(DirName(2)), <<2, 2>>)}

InitExtract ==
    /\ IndexInit
    /\ RagIdle
    /\ McpIdle
    /\ MetaIdle
    /\ arg \in [paper : ExtractPapers, texts : SeqsUpTo(PageSamples, MaxPages)]
    /\ ret = <<>>
    /\ call = "none"

ExtractPdfByPages ==
    /\ call = "none"
    /\ call' = "extract_pdf_by_pages"
    /\ ret' = PagesFrom(arg.paper, arg.texts, 0)
    /\ UNCHANGED <<arg, outsideFn>>

SpecExtract == InitExtract /\ [][ExtractPdfByPages]_vars

(***************************************************************************)
(* parse_filename on its own, over file names of every shape               *)
(***************************************************************************)
\* Authors and titles the names are built from: plain, with blanks around,
\* blank, with a dash inside, with a four-digit run, with a dash-year-dash
\* sequence, with a line break.
AuthorParts ==
    {<<"A">>, <<"A", " ">>, <<" ">>, <<"A", "-", "B">>,
     <<"L", "1", "9", "9", "9">>,
     <<"X", " ", "-", " ", "1", "9", "9", "9", " ", "-", " ", "Z">>,
     <<"A", "\n", "B">>}

TitleParts ==
    {<<"T">>, <<" ", "T", " ">>, <<" ">>,
     <<"T", "-", "2", "0", "2", "1", "-", "U">>, <<"T", "\n">>,
     <<"T", "\n", "U">>}

Extensions == {<<>>, <<".", "p", "d", "f">>, <<".", "P", "D", "F">>}

\* Names that are not of the form authors, dash, year, dash, title.
OtherNames ==
    {<<"n", "o", "t", "e", "s">>,
     <<"A", " ", "-", " ", "2", "0", " ", "-", " ", "T">>,
     <<"A", " ", "2", "0", "2", "0", " ", "T">>,
     <<"A", " ", "-", " ", "2", "0", "2", "0">>,
     <<"A", " ", "-", " ", "2", "0", "2", "0", " ", "-">>,
     <<"-", " ", "2", "0", "2", "0", " ", "-", " ", "T">>, <<>>,
     <<"A", " ", "-", " ", "1", "2", "3", "4", "5", " ", "-", " ", "T">>,
     <<"2", "0", "2", "0">>}

FileNames ==
    {a \o <<d[1]>> \o g1 \o <<"2", "0", "2", "0">> \o g2 \o <<d[2]>> \o t \o e :
        a \in AuthorParts, d \in {<<"-", "-">>, <<"~", "=">>, <<"=", "-">>},
        g1 \in {<<>>, <<" ">>}, g2 \in {<<>>, <<" ">>}, t \in TitleParts,
        e \in Extensions}
    \cup {n \o e : n \in OtherNames, e \in Extensions}

InitParse ==
    /\ IndexInit
    /\ RagIdle
    /\ McpIdle
    /\ MetaIdle
    /\ arg \in FileNames
    /\ ret = <<>>
    /\ call = "none"

ParseFilename ==
    /\ call = "none"
    /\ call' = "parse_filename"
    /\ ret' = parse_filename(arg, "AAAA1111", <<1, 1>>)
    /\ UNCHANGED <<arg, outsideFn>>

SpecParse == InitParse /\ [][ParseFilename]_vars

(***************************************************************************)
(* zotero_meta.py: ZoteroDatabase over the tables of a Zotero database     *)
(*                                                                         *)
(* A database is a record of tables: items (itemID -> key and type name),  *)
(* deletedItems (a set of itemIDs), itemData (itemID -> title and date; the *)
(* other fields are copied the same way and left out), itemCreators,       *)
(* itemTags, itemNotes and itemAttachments (itemID -> parentItemID and path, 0 and   *)
(* <<>> for NULL).                                                         *)
(***************************************************************************)
\* a search that looks at the start of the date only
search_year_at_start(date, p) ==
    IF p + 3 <= Len(date) /\ \A k \in 0..3 : date[p + k] \in Digits
    THEN SubSeq(date, p, p + 3) ELSE <<>>

\* re.search(r'(\d{4})', date) from position p on: group 1 of the leftmost
\* match, <<>> when there is none
RECURSIVE search_year(_, _)
search_year(date, p) ==
    IF p + 3 > Len(date) THEN <<>>
    ELSE IF \A k \in 0..3 : date[p + k] \in Digits THEN SubSeq(date, p, p + 3)
    ELSE search_year(date, p + 1)

\* lines 173-177
year_of(date) == IF date # <<>> THEN Join(search_year(date, 1)) ELSE ""

\* lines 232-239: the name of a creator, "" when there is none
creator_name(row) ==
    IF row.firstName # "" /\ row.lastName # ""
    THEN row.firstName \o " " \o row.lastName
    ELSE IF row.lastName # "" THEN row.lastName ELSE row.firstName

\* re.sub(r'<[^>]+>', '', note)
RECURSIVE re_sub_tags(_)
re_sub_tags(note) ==
    IF note = <<>> THEN <<>>
    ELSE LET closing == {j \in 3..Len(note) :
                           note[j] = ">" /\ \A k \in 2..(j - 1) : note[k] # ">"}
         IN  IF Head(note) = "<" /\ closing # {}
             THEN re_sub_tags(SubSeq(note, (CHOOSE j \in closing : TRUE) + 1,
                                     Len(note)))
             ELSE <<Head(note)>> \o re_sub_tags(Tail(note))

\* the same rows without the deletedItems condition of line 147
rows_with_deleted(db) ==
    {id \in DOMAIN db.items :
        db.items[id].typeName \notin {"attachment", "note", "annotation"}}

\* lines 141-147: the rows of items that are no attachment, note or
\* annotation and are not deleted
regular_rows(db) ==
    {id \in DOMAIN db.items :
        /\ db.items[id].typeName \notin {"attachment", "note", "annotation"}
        /\ id \notin db.deletedItems}

\* lines 274-291
load_attachments(db, item_id) ==
    LET rows == SetToSeq({id \in DOMAIN db.itemAttachments :
                            /\ db.itemAttachments[id].parentItemID = item_id
                            /\ id \in DOMAIN db.items
                            /\ id \notin db.deletedItems})
        stored == SelectSeq(rows, LAMBDA id :
                     /\ Len(db.itemAttachments[id].path) >= 8
                     /\ SubSeq(db.itemAttachments[id].path, 1, 8)
                          = <<"s", "t", "o", "r", "a", "g", "e", ":">>)
    IN  [k \in 1..Len(stored) |->
            db.items[stored[k]].key \o "/"
              \o Join(SubSeq(db.itemAttachments[stored[k]].path, 9,
                             Len(db.itemAttachments[stored[k]].path)))]

\* lines 255-272
load_notes(db, item_id) ==
    LET rows == SetToSeq({id \in DOMAIN db.itemNotes :
                            /\ db.itemNotes[id].parentItemID = item_id
                            /\ id \in DOMAIN db.items
                            /\ id \notin db.deletedItems})
        clean == [k \in 1..Len(rows) |->
                    strip(re_sub_tags(db.itemNotes[rows[k]].note))]
    IN  [k \in 1..Len(SelectSeq(clean, LAMBDA n : n # <<>>)) |->
            Join(SelectSeq(clean, LAMBDA n : n # <<>>)[k])]

\* lines 220-241
load_creators(db, item_id) ==
    LET names == [k \in 1..Len(db.itemCreators[item_id]) |->
                    creator_name(db.itemCreators[item_id][k])]
    IN  SelectSeq(names, LAMBDA n : n # "")

\* lines 150-179: the metadata of one row
item_metadata(db, item_id) ==
    [item_key |-> db.items[item_id].key,
     item_type |-> db.items[item_id].typeName,
     title |-> Join(db.itemData[item_id].title),
     date |-> Join(db.itemData[item_id].date),
     authors |-> load_creators(db, item_id),
     tags |-> db.itemTags[item_id],
     notes |-> load_notes(db, item_id),
     attachments |-> load_attachments(db, item_id),
     year |-> year_of(db.itemData[item_id].date)]

\* get_all_items: lines 137-181, a dict keyed by item key
get_all_items(db) ==
    [key \in {db.items[id].key : id \in regular_rows(db)} |->
        item_metadata(db, CHOOSE id \in regular_rows(db) : db.items[id].key = key)]

\* None
NotFound == [found |-> FALSE]

\* get_item_by_attachment_key: lines 293-321
get_item_by_attachment_key(db, attachment_key) ==
    LET rows == {id \in DOMAIN db.itemAttachments :
                    id \in DOMAIN db.items /\ db.items[id].key = attachment_key}
        parent_id == db.itemAttachments[CHOOSE id \in rows : TRUE].parentItemID
    IN  IF rows = {} THEN NotFound
        ELSE IF parent_id = 0 THEN NotFound
        ELSE IF parent_id \notin DOMAIN db.items THEN NotFound
        ELSE IF db.items[parent_id].key \notin DOMAIN get_all_items(db) THEN NotFound
        ELSE [found |-> TRUE,
              metadata |-> get_all_items(db)[db.items[parent_id].key]]

\* Date fields as people and importers write them.
DateSamples ==
    {<<>>, <<"2", "0", "2", "1", "-", "0", "3", "-", "1", "5">>,
     <<"M", "a", "r", "c", "h", " ", "2", "0", "2", "1">>,
     <<"n", ".", "d", ".">>, <<"1", "2", "-", "0", "3", "-", "2", "1">>,
     <<"2", "0", "2", "1", "1">>,
     <<"c", ".", " ", "1", "9", "9", "9", "/", "2", "0", "0", "0">>,
     <<"2", "1">>}

\* Databases: two regular items (1 and 4), an attachment (2) and a note (3)
\* of item 1; item 1 and the attachment may be deleted, the attachment's
\* parent is NULL, item 1, the note or a row that does not exist, its path is
\* NULL, a stored file or a linked file.
Databases ==
    {[items |-> [id \in 1..4 |->
                   CASE id = 1 -> [key |-> "ITEM0001", typeName |-> "journalArticle"]
                     [] id = 2 -> [key |-> "ATCH0002", typeName |-> "attachment"]
                     [] id = 3 -> [key |-> "NOTE0003", typeName |-> "note"]
                     [] OTHER -> [key |-> "ITEM0004", typeName |-> "book"]],
      deletedItems |-> deleted,
      itemData |-> [id \in {1, 4} |->
                      IF id = 1 THEN [title |-> <<"T">>, date |-> date]
                      ELSE [title |-> <<"U">>,
                            date |-> <<"M", "a", "r", "c", "h", " ",
                                       "2", "0", "2", "1">>]],
      itemCreators |-> [id \in {1, 4} |->
                          IF id = 1
                          THEN <<[firstName |-> "A", lastName |-> "B"],
                                 [firstName |-> "", lastName |-> "C"],
                                 [firstName |-> "", lastName |-> ""]>>
                          ELSE <<>>],
      itemTags |-> [id \in {1, 4} |-> IF id = 1 THEN <<"ml">> ELSE <<>>],
      itemNotes |-> [id \in {3} |->
                       [parentItemID |-> 1,
                        note |-> <<"<", "p", ">", "n", "<", "/", "p", ">", " ">>]],
      itemAttachments |-> [id \in {2} |-> [parentItemID |-> parent, path |-> path]]] :
        deleted \in SUBSET {1, 2}, date \in DateSamples, parent \in {0, 1, 3, 9},
        path \in {<<>>, <<"s", "t", "o", "r", "a", "g", "e", ":", "a", ".", "p", "d", "f">>,
                  <<"/", "a", ".", "p", "d", "f">>}}

LookupKeys == {"ITEM0001", "ATCH0002", "NOTE0003", "ITEM0004", "NOSUCH00"}

InitZotero ==
    /\ IndexInit
    /\ RagIdle
    /\ McpIdle
    /\ MetaIdle
    /\ arg \in [db : Databases, key : LookupKeys]
    /\ ret = <<>>
    /\ call = "none"

GetAllItems ==
    /\ call = "none"
    /\ call' = "get_all_items"
    /\ ret' = get_all_items(arg.db)
    /\ UNCHANGED <<arg, outsideFn>>

GetItemByAttachmentKey ==
    /\ call = "none"
    /\ call' = "get_item_by_attachment_key"
    /\ ret' = get_item_by_attachment_key(arg.db, arg.key)
    /\ UNCHANGED <<arg, outsideFn>>

NextZotero == GetAllItems \/ GetItemByAttachmentKey

SpecZotero == InitZotero /\ [][NextZotero]_vars

(***************************************************************************)
(* zotero_meta.py: extract_and_cache_metadata and ZoteroDatabase._connect  *)
(*                                                                         *)
(* zotero_sqlite says where the database is ("configured": at the path of  *)
(* the configuration, "default": only where find_zotero_database looks,    *)
(* "nowhere"), which of two contents it has, and how the read-only open of *)
(* lines 99-106 ends: "ok", "locked" (sqlite3.OperationalError) or         *)
(* "broken" (any other exception).                                         *)
(***************************************************************************)
\* The two contents the database takes: as first written, and after item 1
\* was deleted in Zotero.
LibraryVersions ==
    [v \in 1..2 |->
        CHOOSE db \in Databases :
            /\ db.deletedItems = (IF v = 1 THEN {} ELSE {1})
            /\ db.itemData[1].date = <<"2", "0", "2", "1", "-", "0", "3", "-", "1", "5">>
            /\ db.itemAttachments[2].parentItemID = 1
            /\ Len(db.itemAttachments[2].path) = 13]

DatabaseStates ==
    [where : {"configured", "default", "nowhere"}, version : 1..2,
     direct : {"ok", "locked", "broken"}]

\* What can go wrong after the read-only open: shutil.copy2 (line 117),
\* sqlite3.connect on the copy (line 119), get_all_items (line 408).
Faults == [copy2 : BOOLEAN, connect : BOOLEAN, extraction : BOOLEAN]

\* the cache used whenever it exists
use_cache_ignoring_force(force_arg, cache) == cache.exists

\* line 377
use_cache(force_arg, cache) == ~force_arg /\ cache.exists

\* lines 379-381: json.load and PaperMetadata(**v) for every record
load_metadata_cache(cache) == [k \in DOMAIN cache.data |-> cache.data[k]]

\* lines 413-414: json.dump of asdict(v) for every record
dump_metadata_cache(items) ==
    [exists |-> TRUE, data |-> [k \in DOMAIN items |-> items[k]]]

\* lines 386-403: the path of the configuration, else what
\* find_zotero_database found
database_found(db) == db.where # "nowhere"

\* ZoteroDatabase.__init__ and _connect, lines 83-120: the connection made,
\* whether an exception left __init__, and the temporary copy created
connect(db, faults, n) ==
    IF db.direct = "ok" THEN [conn |-> "direct", raised |-> FALSE, temp_db |-> {}]
    ELSE IF db.direct = "broken"
    THEN [conn |-> "none", raised |-> TRUE, temp_db |-> {}]
    ELSE IF faults.copy2 \/ faults.connect
    THEN [conn |-> "none", raised |-> TRUE, temp_db |-> {n}]
    ELSE [conn |-> "copy", raised |-> FALSE, temp_db |-> {n}]

\* close, lines 122-129, called by __exit__
close(copies, connection) == copies \ connection.temp_db

MaxMetaCalls == 3

\* extract_and_cache_metadata, lines 370-418
ExtractAndCacheMetadata(force_arg, faults) ==
    /\ meta_call.n < MaxMetaCalls
    /\ LET n == meta_call.n + 1
           connection == connect(zotero_sqlite, faults, n)
           items == get_all_items(LibraryVersions[zotero_sqlite.version])
           entry == [n |-> n, force |-> force_arg, outcome |-> "returned",
                     value |-> <<>>, conn |-> "none", wrote |-> FALSE,
                     created |-> {}, cache_before |-> metadata_cache,
                     db_before |-> zotero_sqlite]
       IN  IF use_cache(force_arg, metadata_cache)
           THEN /\ meta_call' = [entry EXCEPT
                                   !.value = load_metadata_cache(metadata_cache)]
                /\ UNCHANGED <<metadata_cache, temp_copies>>
           ELSE IF ~database_found(zotero_sqlite)
           THEN /\ meta_call' = entry
                /\ UNCHANGED <<metadata_cache, temp_copies>>
           ELSE IF connection.raised
           THEN \* the with statement of line 407 is never entered
                /\ meta_call' = [entry EXCEPT !.outcome = "raised",
                                              !.created = connection.temp_db]
                /\ temp_copies' = temp_copies \cup connection.temp_db
                /\ UNCHANGED metadata_cache
           ELSE IF faults.extraction
           THEN /\ meta_call' = [entry EXCEPT !.outcome = "raised",
                                              !.conn = connection.conn,
                                              !.created = connection.temp_db]
                /\ temp_copies' = close(temp_copies \cup connection.temp_db,
                                        connection)
                /\ UNCHANGED metadata_cache
           ELSE /\ meta_call' = [entry EXCEPT !.value = items,
                                              !.conn = connection.conn,
                                              !.wrote = TRUE,
                                              !.created = connection.temp_db]
                /\ temp_copies' = close(temp_copies \cup connection.temp_db,
                                        connection)
                /\ metadata_cache' = dump_metadata_cache(items)
    /\ UNCHANGED <<zotero_sqlite, outsideMeta>>

\* Zotero starts, stops, edits its library, or the database is moved.
ZoteroChanges(new) ==
    /\ new # zotero_sqlite
    /\ zotero_sqlite' = new
    /\ UNCHANGED <<metadata_cache, temp_copies, meta_call, outsideMeta>>

NextMeta ==
    \/ \E force_arg \in BOOLEAN, faults \in Faults :
          ExtractAndCacheMetadata(force_arg, faults)
    \/ \E new \in DatabaseStates : ZoteroChanges(new)

InitMeta ==
    /\ IndexInit
    /\ RagIdle
    /\ FnIdle
    /\ McpIdle
    /\ zotero_sqlite \in DatabaseStates
    /\ metadata_cache = NoMetadataCache
    /\ temp_copies = {}
    /\ meta_call = NoMetaCall

SpecMeta == InitMeta /\ [][NextMeta]_vars

(***************************************************************************)
(* Properties of index_papers                                              *)
(***************************************************************************)
Entries == 1..Len(log)

IndexedEntries == {k \in Entries : log[k].outcome = "indexed"}

HasRecord(files, key, file_hash) ==
    key \in DOMAIN files /\ files[key].hash = file_hash

\* Keys whose record the completed run created or overwrote.
ChangedKeys ==
    {k \in DOMAIN cache_file.indexed_files :
        \/ k \notin DOMAIN cache_before.indexed_files
        \/ cache_file.indexed_files[k] # cache_before.indexed_files[k]}

\* The page documents of every document extracted so far, in processing order.
ExpectedBatch ==
    Flatten([k \in Entries |->
                IF log[k].outcome = "indexed"
                THEN extract_pdf_by_pages(papers[k], log[k].content) ELSE <<>>])

\* C1 (as claimed): a force=false run that follows a completed force=false run
\* with no change of the library in between returns 0.
C1_SecondRunIndexesNothing ==
    (pc = "done" /\ ~force /\ after_clean) => result = 0

\* C2 (as claimed): a candidate is skipped if and only if the cache loaded for
\* the run has a record for its key with the file's current fingerprint and
\* force is false; otherwise it goes to extraction.
C2_SkipIffLoadedRecordMatches ==
    \A k \in Entries :
        log[k].outcome # "hash_error" =>
            ( log[k].outcome = "skipped"
              <=> (~force /\ HasRecord(loaded.indexed_files, log[k].key, log[k].hash)) )

\* C3 (as claimed, for a change to another readable PDF): a document that was
\* indexed and whose fingerprint has changed since is extracted again by the
\* next force=false run, and once the run is done the record of its key holds
\* the new fingerprint.
C3_ChangedFileReindexed ==
    \A k \in Entries :
        ( /\ ~force
          /\ pc \in {"loop", "save", "done"}
          /\ log[k].content \in GoodContents
          /\ indexed_hash[log[k].path] \notin {"none", log[k].hash}
          /\ log[k].content = fs[log[k].path] )
        => /\ log[k].outcome = "indexed"
           /\ pc = "done" => HasRecord(cache_file.indexed_files, log[k].key, log[k].hash)

\* C4 (as claimed): a candidate whose processing fails, in fingerprinting or in
\* extraction, does not end the run: the loop moves on to the next candidate.
C4_FailureDoesNotAbort ==
    \A k \in Entries :
        log[k].outcome \in {"hash_error", "extract_error"} => idx > k

\* C5: a run writes a record only for a document it extracted: every record
\* the saved cache holds new or changed belongs to a candidate extracted in
\* this run, no record carries the fingerprint of a candidate whose extraction
\* failed, and a candidate whose extraction failed in the previous run is not
\* skipped by a force=false run.
C5_FailedStayRetryable ==
    /\ pc = "done" =>
         \A key \in ChangedKeys :
             \E k \in IndexedEntries :
                 /\ log[k].key = key
                 /\ cache_file.indexed_files[key].hash = log[k].hash
    /\ \A k \in Entries :
         log[k].outcome = "extract_error" =>
             /\ pc \in {"loop", "save"} =>
                  ~HasRecord(state.indexed_files, log[k].key, log[k].hash)
             /\ pc = "done" =>
                  ~HasRecord(cache_file.indexed_files, log[k].key, log[k].hash)
    /\ (pc \in {"loop", "save"} /\ ~force) =>
         \A k \in Entries : log[k].path \in failed_before => log[k].outcome # "skipped"

\* C5 witness: a force=false run has extracted again, and failed again on, a
\* document that failed in the previous run, next to one it indexed.
C5_Witness ==
    /\ pc = "save" /\ ~force /\ cache_before.exists
    /\ \E k \in Entries : log[k].path \in failed_before /\ log[k].outcome = "extract_error"
    /\ IndexedEntries # {}

\* C6 (as claimed): the count returned by a run that reached its end is the
\* number of candidates it extracted, and the number of cache records it
\* created or overwrote.
C6_CountIsRecordsWritten ==
    (pc = "done" /\ papers # <<>>) =>
        /\ result = Cardinality(IndexedEntries)
        /\ result = Cardinality(ChangedKeys)

\* C7: in one run the bulk embedding and index call is made at most once, only
\* after every candidate was visited, on exactly the page documents of the
\* documents extracted in the run, in processing order, and never on an empty
\* batch; the vector store is written by that call alone.
C7_OneBulkCall ==
    /\ Len(bulk_calls) <= 1
    /\ \A c \in 1..Len(bulk_calls) :
         /\ bulk_calls[c].visited = Len(papers)
         /\ bulk_calls[c].input = ExpectedBatch
         /\ bulk_calls[c].input # <<>>
    /\ (pc = "loop" /\ idx <= Len(papers)) => bulk_calls = <<>>
    /\ (pc \in {"save", "done"} /\ papers # <<>>) =>
         (bulk_calls = <<>> <=> ExpectedBatch = <<>>)
    /\ (pc \in {"loop", "save", "done"} /\ vector_store # store_before) =>
         (Len(bulk_calls) = 1 /\ vector_store = bulk_calls[1].input)

\* C7 witness: one bulk call was made for a run that extracted two documents
\* and failed on a third.
C7_Witness ==
    /\ pc = "save" /\ Len(bulk_calls) = 1
    /\ Cardinality(IndexedEntries) >= 2
    /\ \E k \in Entries : log[k].outcome = "extract_error"
    /\ Len(bulk_calls[1].input) >= 3

\* C8: no step outside a forced run changes the cache file except by adding
\* records or by replacing the record of a document extracted in the run: a
\* record once saved stays, also when its file is gone or fails later.
C8_RecordsNeverRemoved ==
    [][ \/ force /\ pc = "save"
        \/ \A key \in DOMAIN cache_file.indexed_files :
             /\ key \in DOMAIN cache_file'.indexed_files
             /\ cache_file'.indexed_files[key] # cache_file.indexed_files[key]
                  => \E k \in IndexedEntries : log[k].key = key ]_vars

\* C8 witness: a force=false run has saved the cache and the cache still holds
\* the record of a key that no longer has any candidate in the library.
C8_Witness ==
    /\ pc = "done" /\ ~force /\ papers # <<>>
    /\ cache_file.last_indexed = run_no
    /\ \E key \in DOMAIN cache_file.indexed_files :
         \A k \in 1..Len(papers) : papers[k].zotero_key # key

\* C9 (as claimed): find_all_pdfs yields at most one candidate per identity key.
C9_OneCandidatePerKey ==
    \A i, j \in 1..Len(papers) :
        papers[i].zotero_key = papers[j].zotero_key => i = j

(***************************************************************************)
(* Properties of ZoteroRAG                                                 *)
(***************************************************************************)
\* C10 (as claimed): no citation returned by query or by retrieve_only scores
\* below the configured similarity_threshold.
C10_NoCitationBelowThreshold ==
    \A k \in 1..Len(citations) : citations[k].score >= rag.similarity_threshold

(***************************************************************************)
(* Properties of the citations                                             *)
(***************************************************************************)
\* the value the node's metadata holds under key, and default only when the
\* node's metadata has no such key
OwnValue(n, key, default) ==
    IF key \in DOMAIN NodeMetadata(n) THEN NodeMetadata(n)[key] ELSE default

\* C11: query and retrieve_only build exactly one Citation per node handed
\* back by retrieval, in the same order, and each citation's title, authors,
\* year, page and text are those of its own node, a default standing in only
\* for a key the node's metadata lacks.
C11_OneCitationPerNodeInOrder ==
    /\ Len(citations) = Len(source_nodes)
    /\ \A k \in 1..Len(source_nodes) :
          LET n == source_nodes[k].node
          IN  /\ citations[k].title = OwnValue(n, "title", "Unknown")
              /\ citations[k].authors = OwnValue(n, "authors", "Unknown")
              /\ citations[k].year = OwnValue(n, "year", "")
              /\ citations[k].page = OwnValue(n, "page", 0)
              /\ citations[k].text_snippet = NodeText(n)

\* a call that was handed three nodes, the one without authors and year not
\* last
C11_Witness ==
    /\ last_call.op # "none"
    /\ Len(source_nodes) = 3
    /\ source_nodes[3].node # 3
    /\ \E k \in 1..3 : citations[k].authors = "Unknown" /\ citations[k].year = ""

(***************************************************************************)
(* Properties of the MCP server's tools                                    *)
(***************************************************************************)
Statuses == {"success", "error", "no_results", "not_found"}

\* C12: whatever the tool, its input and the state of the configuration
\* file, the vector store, the embedding backend and the state file, the
\* call returns an envelope whose status is success, error, no_results or
\* not_found and no exception escapes it; zotero_search answers no_results
\* exactly when retrieval was carried out and yielded no node.
C12_EnvelopeAlways ==
    mcp_call.tool # "none" =>
        /\ mcp_reply.escaped = "none"
        /\ mcp_reply.status \in Statuses
        /\ mcp_call.tool = "zotero_search" =>
              (mcp_reply.status = "no_results"
                 <=> (mcp_call.retrieved /\ mcp_call.nodes = <<>>))

\* the index is loaded, then the embedding backend goes down and a search
\* is answered with an error envelope
C12_Witness ==
    /\ mcp_call.tool = "zotero_search"
    /\ _index.loaded
    /\ mcp_env.backend = "down"
    /\ mcp_reply.status = "error"
    /\ mcp_reply.message = "ConnectionError"

\* a and b are the same character up to the case of a letter
SameLetter(a, b) ==
    \/ a = b
    \/ /\ {a, b} \cap Upper # {}
       /\ CodePoint(a) - CodePoint(b) \in {Cardinality(Upper), 0 - Cardinality(Upper)}

ContainsIgnoringCase(text, sub) ==
    \E i \in 0..(Len(text) - Len(sub)) :
        \A j \in 1..Len(sub) : SameLetter(text[i + j], sub[j])

\* the titles among the retrieved nodes that contain the keyword
MatchingTitles ==
    {t \in {OwnValue(mcp_call.nodes[k].node, "title", "Unknown") :
               k \in 1..Len(mcp_call.nodes)} :
        ContainsIgnoringCase(Chars(t), mcp_call.keyword)}

\* the excerpts of the retrieved nodes titled t, in retrieval order
ExcerptsOf(t) ==
    LET own == SelectSeq(mcp_call.nodes,
                         LAMBDA n : OwnValue(n.node, "title", "Unknown") = t)
    IN  [k \in 1..Len(own) |->
            [page |-> OwnValue(own[k].node, "page", 0),
             content |-> NodeText(own[k].node)]]

\* C13: zotero_get_paper_content answers with exactly one record per distinct
\* title, among the retrieved nodes, that contains the keyword as a
\* case-insensitive substring, none for another title, each record holding
\* all and only the retrieved nodes of its title in retrieval order; it
\* answers not_found when no title matches.
C13_OneRecordPerMatchingTitle ==
    (mcp_call.tool = "zotero_get_paper_content" /\ mcp_call.retrieved) =>
        IF MatchingTitles = {}
        THEN mcp_reply.status = "not_found"
        ELSE /\ mcp_reply.status = "success"
             /\ Len(mcp_reply.papers) = Cardinality(MatchingTitles)
             /\ {mcp_reply.papers[i].title : i \in 1..Len(mcp_reply.papers)}
                  = MatchingTitles
             /\ \A i \in 1..Len(mcp_reply.papers) :
                   mcp_reply.papers[i].excerpts
                     = ExcerptsOf(mcp_reply.papers[i].title)

\* keyword "t" against four retrieved nodes: title "T" matches in the other
\* case and its two nodes, which another title's node separates, are merged
C13_Witness ==
    /\ mcp_call.tool = "zotero_get_paper_content"
    /\ mcp_call.keyword = <<"t">>
    /\ Len(mcp_call.nodes) = 4
    /\ mcp_call.nodes[1].node = 2
    /\ mcp_call.nodes[4].node = 1
    /\ mcp_reply.status = "success"
    /\ Len(mcp_reply.papers) = 2
    /\ mcp_reply.papers[1].title = "T"
    /\ Len(mcp_reply.papers[1].excerpts) = 2

(***************************************************************************)
(* Properties of find_all_pdfs                                             *)
(***************************************************************************)
\* the file of slot sl is a PDF directly inside a directory of the root
\* whose name is exactly 8 characters, each an upper-case letter or a digit
PdfInKeyDirectory(lib, sl) ==
    /\ sl[2] # 0
    /\ lib[sl] # "absent"
    /\ <<sl[1], 0>> \notin DOMAIN lib
    /\ Len(DirName(sl[1])) = 8
    /\ \A j \in 1..Len(DirName(sl[1])) : DirName(sl[1])[j] \in Upper \cup Digits
    /\ Len(FileName(sl[2])) >= 4
    /\ SubSeq(FileName(sl[2]), Len(FileName(sl[2])) - 3, Len(FileName(sl[2])))
         = <<".", "p", "d", "f">>
    /\ \A j \in 1..Len(FileName(sl[2])) : FileName(sl[2])[j] # "/"

\* C14: find_all_pdfs returns a candidate for a file if and only if the file
\* is a PDF directly inside a sub-directory of the storage root whose name is
\* exactly 8 characters, each an upper-case letter or a digit; other entries
\* of the root contribute nothing, and a candidate's identity key is the name
\* of its directory.
C14_CandidateIffPdfInKeyDirectory ==
    (call = "find_all_pdfs" /\ storage_exists(arg)) =>
        /\ \A sl \in DOMAIN arg :
              Cardinality({k \in 1..Len(ret) : ret[k].file_path = sl})
                = (IF PdfInKeyDirectory(arg, sl) THEN 1 ELSE 0)
        /\ \A k \in 1..Len(ret) :
              /\ ret[k].file_path \in DOMAIN arg
              /\ ret[k].zotero_key = Join(DirName(ret[k].file_path[1]))

NonBlankPages == {p \in 1..Len(arg.texts) :
                    \E j \in 1..Len(arg.texts[p]) : arg.texts[p][j] \notin Spaces}

\* C16: extract_pdf_by_pages emits as many (text, metadata) pairs as the
\* document has pages that are not whitespace-only and none for a blank
\* page; every text is non-empty, every page number lies in 1..total_pages,
\* page numbers increase strictly, and every pair carries the identity key,
\* the file name and the path of that document.
C16_OnePairPerNonBlankPage ==
    call = "extract_pdf_by_pages" =>
        /\ Len(ret) = Cardinality(NonBlankPages)
        /\ \A k \in 1..Len(ret) :
              /\ ret[k].metadata.page \in NonBlankPages
              /\ ret[k].text = Join(arg.texts[ret[k].metadata.page])
              /\ ret[k].text # ""
              /\ ret[k].metadata.total_pages = Len(arg.texts)
              /\ 1 <= ret[k].metadata.page
              /\ ret[k].metadata.page <= ret[k].metadata.total_pages
              /\ ret[k].metadata.zotero_key = arg.paper.zotero_key
              /\ ret[k].metadata.source = Join(FileName(arg.paper.file_path[2]))
              /\ ret[k].metadata.file_path = arg.paper.file_path
        /\ \A k \in 1..(Len(ret) - 1) :
              ret[k].metadata.page < ret[k + 1].metadata.page

\* a three-page document whose second page is blank: pages 1 and 3 are
\* emitted
C16_Witness ==
    /\ call = "extract_pdf_by_pages"
    /\ Len(arg.texts) = 3
    /\ arg.texts[2] = <<"\n", "\t">>
    /\ Len(ret) = 2
    /\ ret[1].metadata.page = 1
    /\ ret[2].metadata.page = 3

(***************************************************************************)
(* Properties of parse_filename                                            *)
(***************************************************************************)
\* the file name without a final ".pdf", in any letter case
Stem(filename) ==
    IF /\ Len(filename) >= 4
       /\ filename[Len(filename) - 3] = "."
       /\ filename[Len(filename) - 2] \in {"p", "P"}
       /\ filename[Len(filename) - 1] \in {"d", "D"}
       /\ filename[Len(filename)] \in {"f", "F"}
    THEN SubSeq(filename, 1, Len(filename) - 4)
    ELSE filename

Blank(s, i, j) == \A k \in i..j : s[k] \in Spaces

\* The ways to read s as A, dash, YYYY, dash, T with A and T non-empty and
\* blanks allowed around the year: <<a, y, b>> when A is s[1..a], the year
\* starts at y and T is what follows the dash at b.
Decompositions(s) ==
    UNION {UNION {{<<a, y, b>> :
                      b \in {c \in (y + 4)..(Len(s) - 1) :
                                s[c] \in Dashes /\ Blank(s, y + 4, c - 1)}} :
                  y \in {z \in (a + 2)..(Len(s) - 4) :
                            /\ Blank(s, a + 2, z - 1)
                            /\ \A k \in 0..3 : s[z + k] \in Digits}} :
           a \in {c \in 1..(Len(s) - 1) : s[c + 1] \in Dashes}}

\* authors, year and title of the decomposition dc of s
Fields(s, dc) ==
    [authors |-> Join(strip(SubSeq(s, 1, dc[1]))),
     year |-> Join(SubSeq(s, dc[2], dc[2] + 3)),
     title |-> Join(strip(SubSeq(s, dc[3] + 1, Len(s))))]

Parsed == [authors |-> ret.authors, year |-> ret.year, title |-> ret.title]

\* C17 as stated: whenever the stem reads as A, dash, YYYY, dash, T with A
\* and T non-empty, parse_filename returns authors = A trimmed, year = YYYY
\* and title = T trimmed, whatever A and T contain.
C17_EveryDecompositionReturned ==
    call = "parse_filename" =>
        \A dc \in Decompositions(Stem(arg)) : Parsed = Fields(Stem(arg), dc)

\* C17, amended: when the stem has no line break and reads as A, dash, YYYY,
\* dash, T with A and T non-empty, parse_filename returns authors = A
\* trimmed, year = YYYY and title = T trimmed for the reading with the
\* shortest A (the only reading unless A contains a dash, four digits and a
\* dash in a row); dashes and four-digit runs in T, and dashes or digits in A
\* that form no such sequence, do not change the result.
C17_ShortestAuthorsReturned ==
    (/\ call = "parse_filename"
     /\ \A k \in 1..Len(Stem(arg)) : Stem(arg)[k] # "\n"
     /\ Decompositions(Stem(arg)) # {}) =>
        LET first == CHOOSE dc \in Decompositions(Stem(arg)) :
                        \A other \in Decompositions(Stem(arg)) : dc[1] <= other[1]
        IN  Parsed = Fields(Stem(arg), first)

\* a name with two readings, parsed by the one with the shorter authors
C17_Witness ==
    /\ call = "parse_filename"
    /\ \A k \in 1..Len(Stem(arg)) : Stem(arg)[k] # "\n"
    /\ Cardinality(Decompositions(Stem(arg))) = 2
    /\ ret.authors = "X"
    /\ ret.year = "1999"

\* the year is empty or four digits of the name
YearIsEmptyOrFourDigits ==
    \/ ret.year = ""
    \/ \E p \in 1..(Len(arg) - 3) :
          /\ \A k \in 0..3 : arg[p + k] \in Digits
          /\ ret.year = Join(SubSeq(arg, p, p + 3))

\* C18 as stated: for a name that is not of the authors-year-title form,
\* parse_filename returns authors "Unknown", year "" and the input as title;
\* in every case the year is empty or exactly four digits.
C18_FallbackTitleIsInput ==
    call = "parse_filename" =>
        /\ YearIsEmptyOrFourDigits
        /\ Decompositions(Stem(arg)) = {} =>
              Parsed = [authors |-> "Unknown", year |-> "", title |-> Join(arg)]

\* C18, amended: for a name whose stem is not of the authors-year-title
\* form, parse_filename returns authors "Unknown", year "" and, as title,
\* the name without its final ".pdf" (in any letter case); in every case the
\* year is empty or exactly four digits.
C18_FallbackTitleIsStem ==
    call = "parse_filename" =>
        /\ YearIsEmptyOrFourDigits
        /\ Decompositions(Stem(arg)) = {} =>
              Parsed = [authors |-> "Unknown", year |-> "",
                        title |-> Join(Stem(arg))]

\* "notes.pdf" falls back to the title "notes"
C18_Witness ==
    /\ call = "parse_filename"
    /\ arg = <<"n", "o", "t", "e", "s", ".", "p", "d", "f">>
    /\ ret.authors = "Unknown"
    /\ ret.year = ""
    /\ ret.title = "notes"


(***************************************************************************)
(* Properties of ZoteroDatabase                                            *)
(***************************************************************************)
\* The positions of a date at which four digits stand in a row.
DigitRuns(date) ==
    {p \in 1..Len(date) : p + 3 <= Len(date) /\ \A k \in 0..3 : date[p + k] \in Digits}

\* The rows get_all_items extracts: regular items that are not deleted.
Extracted(db) ==
    {id \in DOMAIN db.items :
        /\ db.items[id].typeName \notin {"attachment", "note", "annotation"}
        /\ id \notin db.deletedItems}

\* C19: in the result of get_all_items the year of every item is the first
\* run of four consecutive digits of its date, wherever it stands, and the
\* empty string when the date is empty or has no such run; the call returns
\* a record for every extracted item, so none of these dates raised.
C19_YearIsFirstFourDigitRun ==
    call = "get_all_items" =>
        /\ DOMAIN ret = {arg.db.items[id].key : id \in Extracted(arg.db)}
        /\ \A id \in Extracted(arg.db) :
              LET date == arg.db.itemData[id].date
                  runs == DigitRuns(date)
                  first == CHOOSE p \in runs : \A r \in runs : p <= r
              IN  ret[arg.db.items[id].key].year =
                    IF runs = {} THEN "" ELSE Join(SubSeq(date, first, first + 3))

\* get_all_items returned two items, one whose date has two runs of four
\* digits after other text and one dated "March 2021".
C19_Witness ==
    /\ call = "get_all_items"
    /\ arg.db.itemData[1].date
         = <<"c", ".", " ", "1", "9", "9", "9", "/", "2", "0", "0", "0">>
    /\ "ITEM0001" \in DOMAIN ret
    /\ ret["ITEM0001"].year = "1999"
    /\ ret["ITEM0004"].year = "2021"

\* The parents of the attachment rows that carry a key.
ParentsOf(db, key) ==
    {db.itemAttachments[id].parentItemID :
        id \in {a \in DOMAIN db.itemAttachments :
                  a \in DOMAIN db.items /\ db.items[a].key = key}}

\* C20: get_item_by_attachment_key returns the metadata of the parent item
\* when the key is that of an attachment whose parent is a regular item that
\* is not deleted, and the not-found value for every other key: one that is
\* no attachment, one whose attachment has no parent, one whose parent is
\* deleted, is a note or is no row at all.
C20_ParentMetadataOrNotFound ==
    call = "get_item_by_attachment_key" =>
        LET parents == ParentsOf(arg.db, arg.key) \cap Extracted(arg.db)
        IN  IF parents = {} THEN ret = NotFound
            ELSE \E p \in parents :
                   /\ ret.found
                   /\ ret.metadata.item_key = arg.db.items[p].key
                   /\ ret.metadata.item_type = arg.db.items[p].typeName
                   /\ ret.metadata.title = Join(arg.db.itemData[p].title)
                   /\ ret.metadata.date = Join(arg.db.itemData[p].date)
                   /\ ret.metadata.authors = <<"A B", "C">>
                   /\ ret.metadata.tags = arg.db.itemTags[p]
                   /\ ret.metadata.notes = <<"n">>

\* The key of a stored attachment was resolved to its parent item, whose
\* attachment list names the file.
C20_Witness ==
    /\ call = "get_item_by_attachment_key"
    /\ arg.key = "ATCH0002"
    /\ ret.found
    /\ ret.metadata.item_key = "ITEM0001"
    /\ ret.metadata.attachments = <<"ATCH0002/a.pdf">>

\* The key of an attachment whose parent item is deleted was looked up and
\* nothing was found.
C20_WitnessDeletedParent ==
    /\ call = "get_item_by_attachment_key"
    /\ arg.key = "ATCH0002"
    /\ arg.db.itemAttachments[2].parentItemID = 1
    /\ 1 \in arg.db.deletedItems
    /\ ret = NotFound

(***************************************************************************)
(* Properties of extract_and_cache_metadata and ZoteroDatabase._connect    *)
(***************************************************************************)
\* What the database held when the last call was made.
HeldThen == get_all_items(LibraryVersions[meta_call.db_before.version])

\* C21: after every call of extract_and_cache_metadata, in any sequence of
\* calls and changes of the database: with force=false and a cache file the
\* call returned the cached mapping, opened no database and left the cache
\* as it was; with force=true or no cache file, and a database found, a call
\* that returned has read the database and rewritten the cache with what it
\* read; with no database found it returned the empty mapping and left the
\* cache file as it was (absent if it was absent); a call that raised left
\* the cache as it was.
C21_CachePolicy ==
    meta_call.n > 0 =>
        LET cached == ~meta_call.force /\ meta_call.cache_before.exists
            found == meta_call.db_before.where # "nowhere"
        IN  /\ cached =>
                  /\ meta_call.outcome = "returned"
                  /\ meta_call.value = meta_call.cache_before.data
                  /\ meta_call.conn = "none"
                  /\ ~meta_call.wrote
                  /\ metadata_cache = meta_call.cache_before
            /\ (~cached /\ found /\ meta_call.outcome = "returned") =>
                  /\ meta_call.conn \in {"direct", "copy"}
                  /\ meta_call.wrote
                  /\ meta_call.value = HeldThen
                  /\ metadata_cache = [exists |-> TRUE, data |-> HeldThen]
            /\ (~cached /\ ~found) =>
                  /\ meta_call.outcome = "returned"
                  /\ meta_call.value = <<>>
                  /\ meta_call.conn = "none"
                  /\ ~meta_call.wrote
                  /\ metadata_cache = meta_call.cache_before
            /\ meta_call.outcome = "raised" =>
                  metadata_cache = meta_call.cache_before

\* A later call with force=false returned the cached mapping, which still
\* lists item 1, although the database no longer holds it.
C21_Witness ==
    /\ meta_call.n >= 2
    /\ ~meta_call.force
    /\ meta_call.cache_before.exists
    /\ meta_call.db_before.where = "configured"
    /\ meta_call.db_before.version = 2
    /\ "ITEM0001" \in DOMAIN meta_call.value
    /\ "ITEM0001" \notin DOMAIN HeldThen

\* C22: a temporary copy is made only when the read-only open failed, and
\* no copy made by a call exists when the call has ended, whether it
\* returned or raised.
C22_NoCopyLeftBehind ==
    meta_call.n > 0 =>
        /\ meta_call.created # {} => meta_call.db_before.direct # "ok"
        /\ meta_call.created \cap temp_copies = {}

\* C22: the database is never written by a call.
C22_DatabaseNeverWritten ==
    [][meta_call' # meta_call => zotero_sqlite' = zotero_sqlite]_vars

\* A call found the database locked, worked on a copy and removed it.
C22_WitnessCopyRemoved ==
    /\ meta_call.conn = "copy"
    /\ meta_call.created # {}
    /\ temp_copies = {}

(***************************************************************************)
(* Properties of zotero_list_papers                                        *)
(***************************************************************************)
RECURSIVE SumCounts(_)
SumCounts(histogram) ==
    IF histogram = <<>> THEN 0
    ELSE Head(histogram).count + SumCounts(Tail(histogram))

\* (year, title) of a record, the key the listing is ordered by
YearTitle(files, k) == <<Chars(files[k].year), Chars(files[k].title)>>

\* The reply of the last zotero_list_papers call lists, of the records whose
\* year equals the filter (all records for a filter in unfiltered), the
\* first min(limit, number of matches) in descending (year, title) order;
\* returned is the length of the list; total_in_library and the histogram
\* range over all records and the counts add up to total_in_library.
Listing(unfiltered) ==
    (mcp_call.tool = "zotero_list_papers" /\ mcp_reply.status = "success") =>
        LET files == cache_file.indexed_files
            matches == {k \in DOMAIN files :
                          mcp_call.year \in unfiltered
                          \/ files[k].year = mcp_call.year}
            shown == mcp_reply.papers
            keys == {shown[i].zotero_key : i \in 1..Len(shown)}
        IN  /\ Len(shown) = (IF Cardinality(matches) < mcp_call.limit
                             THEN Cardinality(matches) ELSE mcp_call.limit)
            /\ keys \subseteq matches
            /\ Cardinality(keys) = Len(shown)
            /\ \A i \in 1..Len(shown) :
                  /\ shown[i].title = files[shown[i].zotero_key].title
                  /\ shown[i].year = files[shown[i].zotero_key].year
                  /\ shown[i].pages = files[shown[i].zotero_key].pages
            /\ \A i, j \in 1..Len(shown) :
                  i < j => ~PairLess(YearTitle(files, shown[i].zotero_key),
                                     YearTitle(files, shown[j].zotero_key))
            /\ \A k \in matches \ keys : \A i \in 1..Len(shown) :
                  ~PairLess(YearTitle(files, shown[i].zotero_key),
                            YearTitle(files, k))
            /\ mcp_reply.returned = Len(shown)
            /\ mcp_reply.total_in_library = Cardinality(DOMAIN files)
            /\ {mcp_reply.papers_by_year[i].year :
                   i \in 1..Len(mcp_reply.papers_by_year)}
                 = {files[k].year : k \in DOMAIN files}
            /\ \A i \in 1..Len(mcp_reply.papers_by_year) :
                  mcp_reply.papers_by_year[i].count
                    = Cardinality({k \in DOMAIN files :
                                     files[k].year = mcp_reply.papers_by_year[i].year})
            /\ SumCounts(mcp_reply.papers_by_year) = mcp_reply.total_in_library

\* C23: for any cache content, year filter and limit, zotero_list_papers
\* returns exactly the first min(limit, matches) records in descending
\* (year, title) order among the records whose year equals the filter, all
\* records only when no filter is given; returned, total_in_library and the
\* histogram are as described above.
C23_ListingAsStated == Listing({NoYear})

\* The same with the empty string counted as no filter, which is what line
\* 283 does.
C23_EmptyFilterListsEverything == Listing({NoYear, ""})

\* The filter "" was given over a cache with one record of year "" and one
\* of year "2020", and both were listed.
C23_WitnessEmptyFilter ==
    /\ mcp_call.tool = "zotero_list_papers"
    /\ mcp_reply.status = "success"
    /\ mcp_call.year = ""
    /\ mcp_call.limit = 2
    /\ Len(mcp_reply.papers) = 2
    /\ mcp_reply.papers[1].year = "2020"
    /\ mcp_reply.papers[2].year = ""

\* A limit below the number of matches cut the listing after its first
\* record.
C23_WitnessLimit ==
    /\ mcp_call.tool = "zotero_list_papers"
    /\ mcp_reply.status = "success"
    /\ mcp_call.year = NoYear
    /\ mcp_call.limit = 1
    /\ mcp_reply.returned = 1
    /\ mcp_reply.total_in_library = 2
    /\ mcp_reply.papers[1].year = "2020"

(***************************************************************************)
(* Properties of the chunking configuration                                *)
(***************************************************************************)
\* C24: a run started with chunk_overlap >= chunk_size is rejected, and
\* before the library was scanned, a document extracted or embedded, or the
\* cache or the store written.
C24_RejectedBeforeAnyWork ==
    (run_no > 0 /\ rag_config.chunk_overlap >= rag_config.chunk_size) =>
        /\ pc = "aborted"
        /\ papers = <<>>
        /\ log = <<>>
        /\ bulk_calls = <<>>
        /\ cache_file = NoFile
        /\ vector_store = <<>>

\* What the code does do: with chunk_overlap > chunk_size no document is
\* extracted or embedded and nothing is written, and the run is rejected
\* when the scan found a candidate.
C24_LargerOverlapStopsAfterScan ==
    (run_no > 0 /\ rag_config.chunk_overlap > rag_config.chunk_size) =>
        /\ pc = (IF papers = <<>> THEN "done" ELSE "aborted")
        /\ log = <<>>
        /\ bulk_calls = <<>>
        /\ cache_file = NoFile
        /\ vector_store = <<>>

\* A run with chunk_overlap > chunk_size was rejected after the scan had
\* found a candidate.
C24_WitnessRejectedAfterScan ==
    /\ pc = "aborted"
    /\ rag_config.chunk_overlap > rag_config.chunk_size
    /\ Len(papers) > 0

\* A run with chunk_overlap = chunk_size indexed a document and saved the
\* cache.
C24_WitnessEqualAccepted ==
    /\ pc = "done"
    /\ rag_config.chunk_overlap = rag_config.chunk_size
    /\ result > 0
    /\ cache_file # NoFile

(***************************************************************************)
(* Properties of the cache and the store taken together                    *)
(***************************************************************************)
\* The identity keys that have a chunk in a store.
KeysIn(store) == {store[i].metadata.zotero_key : i \in 1..Len(store)}

\* C25: after every completed run, every identity key that has a record
\* with pages > 0 in the saved cache has page chunks in the persisted vector
\* store; in particular an incremental run does not remove the chunks of
\* documents it did not index again.
C25_CachedKeysAreInStore ==
    pc = "done" =>
        \A key \in DOMAIN cache_file.indexed_files :
            cache_file.indexed_files[key].pages > 0 => key \in KeysIn(vector_store)

\* C26: the cache file is written only by the last step of a run, once, and
\* after the bulk call and the persist of the run's batch have completed
\* (when the batch is empty there is no bulk call to wait for); the state a
\* run works on is the one read when the run started; as long as a run has
\* not made that last step - it is in its loop, it has stopped on an
\* exception of fingerprinting, configuration, embedding or persist, or it
\* returned 0 at once - the cache file is what it was before the run; so
\* every record with pages a run writes has its chunks in the store that the
\* run persisted.
C26_CheckpointOrdering ==
    [][ /\ cache_file' # cache_file =>
             /\ pc = "save" /\ pc' = "done"
             /\ cache_file = cache_before
             /\ all_documents # <<>> =>
                  /\ Len(bulk_calls) = 1
                  /\ bulk_calls[1].input = all_documents
                  /\ vector_store = all_documents
             /\ \A key \in ChangedKeys' :
                  cache_file'.indexed_files[key].pages > 0
                      => key \in KeysIn(vector_store')
        /\ pc' \in {"loop", "save"} =>
             loaded' = (IF force' THEN NoState ELSE load_index_state(cache_before'))
        /\ (pc' \in {"loop", "save", "aborted"} \/ (pc' = "done" /\ papers' = <<>>)) =>
             cache_file' = cache_before' ]_vars

\* A second run has embedded and persisted its batch and then written the
\* cache, over the cache file of the first run.
C26_Witness ==
    /\ pc = "done"
    /\ run_no = 2
    /\ cache_before.exists
    /\ Len(bulk_calls) = 1
    /\ vector_store = bulk_calls[1].input
    /\ cache_file # cache_before
    /\ ChangedKeys # {}

\* The bulk call of a second run raised and the cache file is the one the
\* first run wrote.
C26_WitnessAbort ==
    /\ pc = "aborted"
    /\ Len(bulk_calls) = 1
    /\ cache_before.exists
    /\ cache_file = cache_before
    /\ IndexedEntries # {}

C27_ForcedCacheRebuiltPerKey ==
    (force /\ pc = "done" /\ papers # <<>>) =>
        /\ Len(log) = Len(papers)
        /\ \A k \in Entries : log[k].outcome \in {"indexed", "extract_error"}
        /\ DOMAIN cache_file.indexed_files = {log[k].key : k \in IndexedEntries}
        /\ \A key \in DOMAIN cache_file.indexed_files :
              /\ \E k \in IndexedEntries :
                    /\ log[k].key = key
                    /\ cache_file.indexed_files[key].hash = log[k].hash
              /\ cache_file.indexed_files[key].indexed_at = run_no

\* A forced second run has dropped the record of a key it no longer located
\* and re-extracted a document whose fingerprint had not changed.
C27_WitnessDropped ==
    /\ force /\ pc = "done" /\ run_no = 2
    /\ \E key \in DOMAIN cache_before.indexed_files :
          key \notin DOMAIN cache_file.indexed_files
    /\ \E k \in IndexedEntries :
          HasRecord(cache_before.indexed_files, log[k].key, log[k].hash)

(***************************************************************************)
(* Properties of get_index                                                 *)
(*                                                                         *)
(* zotero_search and zotero_get_paper_content are coroutines without an    *)
(* await: the event loop runs each call from its first line to its return, *)
(* so a call is one step here and calls interleave only between steps.     *)
(***************************************************************************)
\* A step that is a call of zotero_search or zotero_get_paper_content.
EngineCall ==
    /\ mcp_env' = mcp_env
    /\ mcp_call'.tool \in {"zotero_search", "zotero_get_paper_content"}

\* The index can be loaded: the configuration is found and the store loads.
Loadable == mcp_env.config = "ok" /\ mcp_env.vector_db = "ok"

\* C28: once a load has succeeded the handle never changes again and no
\* later call loads: every later call works on that handle, whatever has
\* happened to the configuration and the store since; the handle is set only
\* by a call that loaded the index; a call whose load fails leaves the handle
\* unset and returns an error envelope, and the next call with the handle
\* unset loads again, setting the handle when the load succeeds.
C28_LoadedOnceThenReused ==
    [][ /\ _index.loaded => _index' = _index
        /\ (~_index.loaded /\ _index'.loaded) =>
              /\ EngineCall
              /\ Loadable
              /\ _index'.nodes = mcp_env.nodes
        /\ (EngineCall /\ _index.loaded /\ mcp_env.backend = "up") =>
              mcp_reply'.status # "error"
        /\ (EngineCall /\ ~_index.loaded /\ ~Loadable) =>
              /\ ~_index'.loaded
              /\ mcp_reply'.status = "error"
              /\ mcp_reply'.escaped = "none"
        /\ (EngineCall /\ ~_index.loaded /\ Loadable) => _index'.loaded ]_vars

\* A search was answered from the handle loaded earlier, after the vector
\* store had gone from the disk.
C28_Witness ==
    /\ _index.loaded
    /\ mcp_env.vector_db = "missing"
    /\ mcp_call.tool = "zotero_search"
    /\ mcp_call.retrieved
    /\ mcp_reply.status = "success"

\* A call failed to load the index, left the handle unset and returned an
\* error envelope.
C28_WitnessFailedLoad ==
    /\ ~_index.loaded
    /\ mcp_env.vector_db = "corrupt"
    /\ mcp_call.tool = "zotero_get_paper_content"
    /\ mcp_reply.status = "error"
====
